---- MODULE Spec2Model ----
(***************************************************************************)
(* Period-size and sample-format adaptation layer of jack2                 *)
(* (common/JackFormatConverter.cpp, common/jack/format_converter.h) driven *)
(* by the pass-through client of example-clients/inprocess_period.cpp.     *)
(*                                                                         *)
(* A sample is a pair <<kind, n>>:                                         *)
(*   <<"f", q>>    the float q/4 (quarter units: -8 is -2.0, 4 is +1.0)    *)
(*   <<"i", n>>    the integer sample n of an INT16 / INT32 shadow buffer  *)
(*   <<"f32", n>>  the float (float)n * (float)(1.0 / 0x7FFFFFFF)          *)
(*   <<"f16", n>>  the float (float)n * (float)(1.0 / 0x7FFF)              *)
(*   <<"junk", 0>> memory that was never written, or written out of bounds *)
(* A frame (cell) is [t |-> i, v |-> sample]: t is the index (1, 2, ...)   *)
(* of the server input frame the sample stems from, 0 for silence written  *)
(* by silence_shadow and -1 for junk.                                      *)
(***************************************************************************)
EXTENDS Integers, Sequences, FiniteSets, TLC

\* ------------------------------------------------------------------ bounds
\* Frames per callback the host allows (8192 in jack2), scaled down.
BUFFER_SIZE_MAX == 4
\* Server ticks explored.
MaxTicks == 4

\* --------------------------------------------------------------- constants
SAMPLE_32BIT_SCALING == 2147483647
SAMPLE_16BIT_SCALING == 32767
BUF_ALIGN_BYTES == 32
EINVAL == 22

\* NORMALIZED_FLOAT_MIN / NORMALIZED_FLOAT_MAX in quarter units.
NORMALIZED_FLOAT_MIN == 0 - 4
NORMALIZED_FLOAT_MAX == 0 + 4

\* JackPortConverterFormat_t
DstTypes == {"DEFAULT", "INT16", "INT32"}

\* Ports the client registers with the host, by direction flag.
InputPortNames == {"in1", "in2"}
OutputPortNames == {"out1", "out2"}
PortNames == InputPortNames \cup OutputPortNames

\* The order in which the client creates the converters of its ports.
PortOrder == <<"in1", "in2", "out1", "out2">>

\* Addresses the allocator may give the shadow storage (uint32_t aligned).
BufAddrs == {64, 72}

\* Values the client callback may return.
CallbackReturns == {0 - 5, 0, 1}

\* Float samples (quarter units) the server delivers, cyclically.
FloatSamples == <<2, 0 - 8, 4, 0 - 2, 8, 0 - 4, 1, 0, 3>>

VARIABLES
    jack_buffer_size,  \* jack_get_buffer_size(client), read at construction
    dst_frames,       \* JackBufferConverter::dst_frames
    silence_prefil,   \* JackBufferConverter::silence_prefil
    dst_type,         \* sample format the client creates its ports with
    InPorts,          \* JackBufferConverter::InPorts  (sequence of port names)
    OutPorts,         \* JackBufferConverter::OutPorts (sequence of port names)
    adapters,         \* port name -> FramesPortConverter and its converter
    jack_buffer,      \* output port name -> server buffer of the port
    phase,            \* "setup", "running" or "terminated"
    pc,               \* position inside JackBufferConverter::converter
    ticks,            \* process callbacks entered so far
    callbacks,        \* client callback invocations so far
    cb_nframes,       \* nframes of the latest client callback invocation
    cb_ret,           \* value the latest client callback invocation returned
    loop_ret,         \* ret of the while condition in converter
    ret,              \* value the latest process callback returned
    trace,            \* events of the current (or latest) process callback
    handle,           \* the converter a client drives through the C API
    port_buffer,      \* what jack_port_get_buffer returns for its port
    got,              \* pointer and frames of its latest jack_port_convert_get
    call,             \* its latest API call
    api_calls,        \* API calls made so far
    host,             \* what jack_buffer_create_convert did and returned
    freed,            \* the objects the destroy functions have deleted
    heap_ops          \* heap allocations and frees of the current process callback

\* The state of a converter driven call by call.
apiVars == <<handle, port_buffer, got, call, api_calls, host, freed>>

vars == <<jack_buffer_size, dst_frames, silence_prefil, dst_type, InPorts,
          OutPorts, adapters, jack_buffer, phase, pc, ticks, callbacks,
          cb_nframes, cb_ret, loop_ret, ret, trace, heap_ops, apiVars>>

\* ------------------------------------------------------------ small helpers
Max(a, b) == IF a > b THEN a ELSE b

Junk == [t |-> 0 - 1, v |-> <<"junk", 0>>]

SampleSize(fmt) == IF fmt = "INT16" THEN 2 ELSE 4

\* Frame i (1, 2, ...) of the stream the server delivers to an input port.
ServerIn(i) ==
    [t |-> i, v |-> <<"f", FloatSamples[((i - 1) % Len(FloatSamples)) + 1]>>]

\* The server buffer of an input port in tick n, frames 0 .. S-1.
JackInBuffer(n, S) == [j \in 0 .. S - 1 |-> ServerIn((n - 1) * S + j + 1)]

\* lrintf of num/4 in the default rounding mode (to nearest, ties to even).
LrintQuarter(num) ==
    LET fl == IF num >= 0 THEN num \div 4 ELSE 0 - ((0 - num + 3) \div 4)
        r  == num - 4 * fl
    IN  IF r < 2 THEN fl
        ELSE IF r > 2 THEN fl + 1
        ELSE IF fl % 2 = 0 THEN fl ELSE fl + 1

\* ------------------------------------------------- sample conversion (pure)
\* (float)SAMPLE_32BIT_SCALING is 2^31 (0x7FFFFFFF has no float); a quarter of it.
QuarterOfFloatScaling32 == SAMPLE_32BIT_SCALING \div 4 + 1

\* sample_move_d32_sS: one float sample to int32.
sample_move_d32_sS(x) ==
    IF x[1] # "f" THEN <<"junk", 0>>
    ELSE IF x[2] <= NORMALIZED_FLOAT_MIN THEN <<"i", 0 - SAMPLE_32BIT_SCALING>>
    ELSE IF x[2] >= NORMALIZED_FLOAT_MAX THEN <<"i", SAMPLE_32BIT_SCALING>>
    ELSE <<"i", x[2] * QuarterOfFloatScaling32>>

\* sample_move_d16_sS: one float sample to int16.
sample_move_d16_sS(x) ==
    IF x[1] # "f" THEN <<"junk", 0>>
    ELSE IF x[2] <= NORMALIZED_FLOAT_MIN THEN <<"i", 0 - SAMPLE_16BIT_SCALING>>
    ELSE IF x[2] >= NORMALIZED_FLOAT_MAX THEN <<"i", SAMPLE_16BIT_SCALING>>
    ELSE <<"i", LrintQuarter(x[2] * SAMPLE_16BIT_SCALING)>>

\* sample_move_dS_s32: one int32 sample to float, (float)n * 2^-31.
sample_move_dS_s32(x) ==
    IF x[1] # "i" THEN <<"junk", 0>>
    ELSE IF x[2] = SAMPLE_32BIT_SCALING THEN <<"f", 4>>
    ELSE IF x[2] = 0 - SAMPLE_32BIT_SCALING THEN <<"f", 0 - 4>>
    ELSE IF x[2] % QuarterOfFloatScaling32 = 0
         THEN <<"f", IF x[2] >= 0 THEN x[2] \div QuarterOfFloatScaling32
                     ELSE 0 - ((0 - x[2]) \div QuarterOfFloatScaling32)>>
    ELSE <<"f32", x[2]>>

\* sample_move_dS_s16: one int16 sample to float, (float)n * (float)(1.0/0x7FFF).
sample_move_dS_s16(x) ==
    IF x[1] # "i" THEN <<"junk", 0>>
    ELSE IF x[2] = 0 THEN <<"f", 0>>
    ELSE <<"f16", x[2]>>

\* from_jack of a converter: server float -> shadow sample.
FromJack(fmt, c) ==
    IF fmt = "DEFAULT" THEN c
    ELSE IF fmt = "INT32" THEN [t |-> c.t, v |-> sample_move_d32_sS(c.v)]
    ELSE [t |-> c.t, v |-> sample_move_d16_sS(c.v)]

\* to_jack of a converter: shadow sample -> server float.
ToJack(fmt, c) ==
    IF fmt = "DEFAULT" THEN c
    ELSE IF fmt = "INT32" THEN [t |-> c.t, v |-> sample_move_dS_s32(c.v)]
    ELSE [t |-> c.t, v |-> sample_move_dS_s16(c.v)]

\* ------------------------------------------ ShadowBufferJackPortConverter
\* Mutant of GET_32BYTE_ALIGN_BUFFER: BUF_ALIGN_MASK is not applied.
GET_32BYTE_ALIGN_BUFFER_nomask(buf) == buf + BUF_ALIGN_BYTES

\* GET_32BYTE_ALIGN_BUFFER(buf)
GET_32BYTE_ALIGN_BUFFER(buf) == (buf - (buf % BUF_ALIGN_BYTES)) + BUF_ALIGN_BYTES

\* Bytes of uint32_t buffer[BUFFER_SIZE_MAX + BUF_ALIGN_BYTES/sizeof(uint32_t)].
ShadowStorageBytes == (BUFFER_SIZE_MAX + BUF_ALIGN_BYTES \div 4) * 4

\* Frames that fit between aligned_buffer and the end of the storage.
ShadowCapacity(fmt, addr) ==
    (addr + ShadowStorageBytes - GET_32BYTE_ALIGN_BUFFER(addr)) \div SampleSize(fmt)

\* A sample of zero bytes, as the converter reads it.
Zero(fmt) == [t |-> 0, v |-> IF fmt = "DEFAULT" THEN <<"f", 0>> ELSE <<"i", 0>>]

\* A read of the shadow storage; beyond the storage it yields junk.
ShadowRead(buf, i) == IF i \in DOMAIN buf THEN buf[i] ELSE Junk

\* n frames src[0 .. n-1] stored at offset off; a store beyond the storage is
\* not retained.
ShadowWrite(buf, off, n, src) ==
    [i \in DOMAIN buf |-> IF i >= off /\ i < off + n THEN src[i - off] ELSE buf[i]]

\* silence_shadow(frames)
silence_shadow(a, frames) ==
    [a EXCEPT !.buffer = ShadowWrite(a.buffer, 0, frames,
                                     [i \in 0 .. frames - 1 |-> Zero(a.fmt)])]

\* Mutant of copy_from_jack: reads the server buffer from frame 0.
copy_from_jack_nooffset(a, shadow_offset, jack_offset, frames, src) ==
    [a EXCEPT !.buffer = ShadowWrite(a.buffer, shadow_offset, frames,
                 [i \in 0 .. frames - 1 |-> FromJack(a.fmt, src[i])])]

\* copy_from_jack(shadow_offset, jack_offset, frames) with server buffer src.
copy_from_jack(a, shadow_offset, jack_offset, frames, src) ==
    [a EXCEPT !.buffer = ShadowWrite(a.buffer, shadow_offset, frames,
                 [i \in 0 .. frames - 1 |-> FromJack(a.fmt, src[jack_offset + i])])]

\* copy_to_jack(get_shadow_buffer(src_offset), 0, 0, frames): the server buffer.
copy_to_jack(a, src_offset, frames) ==
    [j \in 0 .. frames - 1 |-> ToJack(a.fmt, ShadowRead(a.buffer, src_offset + j))]

\* ------------------------------------------------------ FramesPortConverter
\* FramesPortConverter constructor over a fresh converter at address addr.
FramesPortConverter(dir, fmt, addr) ==
    [dir |-> dir, fmt |-> fmt, addr |-> addr,
     buffer |-> [i \in 0 .. ShadowCapacity(fmt, addr) - 1 |-> Junk],
     shadow_frames |-> 0, jack_offset |-> 0,
     shadow_offset |-> 0, client_frames |-> 0]

\* Mutant of FramesInPortConverter: the silence is written but not counted.
FramesInPortConverter_noprefill(fmt, addr, prefill) ==
    silence_shadow(FramesPortConverter("in", fmt, addr), prefill)

\* Mutant of FramesInPortConverter: the silence is counted twice.
FramesInPortConverter_twice(fmt, addr, prefill) ==
    [silence_shadow(FramesPortConverter("in", fmt, addr), prefill)
        EXCEPT !.shadow_frames = 2 * prefill]

\* FramesInPortConverter constructor.
FramesInPortConverter(fmt, addr, prefill) ==
    [silence_shadow(FramesPortConverter("in", fmt, addr), prefill)
        EXCEPT !.shadow_frames = prefill]

\* FramesOutPortConverter constructor.
FramesOutPortConverter(fmt, addr) == FramesPortConverter("out", fmt, addr)

\* Mutant of append_from_jack: jack_offset advances by a whole client period.
append_from_jack_period(a, missing_jack_frames, src) ==
    [copy_from_jack(a, a.shadow_frames, a.jack_offset, missing_jack_frames, src)
        EXCEPT !.jack_offset = a.jack_offset + a.shadow_frames + missing_jack_frames,
               !.shadow_frames = 0]

\* FramesInPortConverter::append_from_jack
append_from_jack(a, missing_jack_frames, src) ==
    [copy_from_jack(a, a.shadow_frames, a.jack_offset, missing_jack_frames, src)
        EXCEPT !.jack_offset = a.jack_offset + missing_jack_frames,
               !.shadow_frames = 0]

\* Mutant of InHasPeriod: two client periods are waited for.
InHasPeriod_double(shadow_frames, jack_frames, dst) ==
    shadow_frames + jack_frames >= 2 * dst

\* Mutant of InHasPeriod: > for >=.
InHasPeriod_strict(shadow_frames, jack_frames, dst) == shadow_frames + jack_frames > dst

\* The branch condition of FramesInPortConverter::next.
InHasPeriod(shadow_frames, jack_frames, dst) == shadow_frames + jack_frames >= dst

\* Mutant of FramesIn_next: the pending branch adds the whole server period
\* to shadow_frames instead of the frames not yet read.
FramesIn_next_addall(a, frames, dst, src) ==
    IF a.shadow_frames > dst THEN [r |-> 0 - EINVAL, a |-> a]
    ELSE LET jack_frames == frames - a.jack_offset IN
         IF InHasPeriod(a.shadow_frames, jack_frames, dst)
         THEN [r |-> 1, a |-> append_from_jack(a, dst - a.shadow_frames, src)]
         ELSE [r |-> 0,
               a |-> [copy_from_jack(a, a.shadow_frames, a.jack_offset,
                                     jack_frames, src)
                        EXCEPT !.shadow_frames = a.shadow_frames + frames,
                               !.jack_offset = 0]]

\* The copy_from_jack call FramesInPortConverter::next issues (by
\* append_from_jack when a period is complete): its shadow offset, its offset
\* in the server buffer and its number of frames.
InCopy(a, frames, dst) ==
    LET jack_frames == frames - a.jack_offset IN
    [shadow_off |-> a.shadow_frames,
     server_off |-> a.jack_offset,
     frames |-> IF InHasPeriod(a.shadow_frames, jack_frames, dst)
                THEN dst - a.shadow_frames ELSE jack_frames]

\* Mutant of FramesIn_next: the pending branch keeps jack_offset.
FramesIn_next_keepoffset(a, frames, dst, src) ==
    IF a.shadow_frames > dst THEN [r |-> 0 - EINVAL, a |-> a]
    ELSE LET jack_frames == frames - a.jack_offset IN
         IF InHasPeriod(a.shadow_frames, jack_frames, dst)
         THEN [r |-> 1, a |-> append_from_jack(a, dst - a.shadow_frames, src)]
         ELSE [r |-> 0,
               a |-> [copy_from_jack(a, a.shadow_frames, a.jack_offset,
                                     jack_frames, src)
                        EXCEPT !.shadow_frames = a.shadow_frames + jack_frames]]

\* FramesInPortConverter::next: [r |-> return value, a |-> adapter after].
FramesIn_next(a, frames, dst, src) ==
    IF a.shadow_frames > dst THEN [r |-> 0 - EINVAL, a |-> a]
    ELSE LET jack_frames == frames - a.jack_offset IN
         IF InHasPeriod(a.shadow_frames, jack_frames, dst)
         THEN [r |-> 1, a |-> append_from_jack(a, dst - a.shadow_frames, src)]
         ELSE [r |-> 0,
               a |-> [copy_from_jack(a, a.shadow_frames, a.jack_offset,
                                     jack_frames, src)
                        EXCEPT !.shadow_frames = a.shadow_frames + jack_frames,
                               !.jack_offset = 0]]

\* Mutant of OutHasPeriod: > for >=.
OutHasPeriod_strict(shadow_frames, client_frames, frames) ==
    shadow_frames + client_frames > frames

\* The branch condition of FramesOutPortConverter::next.
OutHasPeriod(shadow_frames, client_frames, frames) ==
    shadow_frames + client_frames >= frames

\* Mutant of OutCompact: shadow_offset is reset, the frames are not moved.
OutCompact_nomove(a) == [a EXCEPT !.shadow_offset = 0]

\* The memmove of FramesOutPortConverter::next.
OutCompact(a) ==
    [a EXCEPT !.buffer = ShadowWrite(a.buffer, 0, a.shadow_frames,
                 [i \in 0 .. a.shadow_frames - 1 |->
                     ShadowRead(a.buffer, a.shadow_offset + i)]),
              !.shadow_offset = 0]

\* The drain step of FramesOutPortConverter::next (counters only).
OutDrain(a, frames) ==
    IF OutHasPeriod(a.shadow_frames, a.client_frames, frames)
    THEN LET left == a.shadow_frames + a.client_frames - frames IN
         [a EXCEPT !.shadow_frames = left,
                   !.shadow_offset = IF left = 0 THEN 0 ELSE a.shadow_offset + frames]
    ELSE [a EXCEPT !.shadow_frames = a.shadow_frames + a.client_frames]

\* Mutant of FramesOut_next: the remaining frames are moved to offset 0 only
\* when they are fewer than a server period.
FramesOut_next_strictmove(a, frames, dst, jb) ==
    IF a.shadow_frames > Max(frames, dst) THEN [r |-> 0 - EINVAL, a |-> a, jb |-> jb]
    ELSE LET d == OutDrain(a, frames)
             m == IF d.shadow_offset # 0 /\ d.shadow_frames < frames
                  THEN OutCompact(d) ELSE d
         IN  [r |-> 1,
              a |-> [m EXCEPT !.client_frames = 0],
              jb |-> IF OutHasPeriod(a.shadow_frames, a.client_frames, frames)
                     THEN copy_to_jack(a, a.shadow_offset, frames) ELSE jb]

\* FramesOutPortConverter::next:
\* [r |-> return value, a |-> adapter after, jb |-> server buffer after].
FramesOut_next(a, frames, dst, jb) ==
    IF a.shadow_frames > Max(frames, dst) THEN [r |-> 0 - EINVAL, a |-> a, jb |-> jb]
    ELSE LET d == OutDrain(a, frames)
             m == IF d.shadow_offset # 0 /\ d.shadow_frames <= frames
                  THEN OutCompact(d) ELSE d
         IN  [r |-> 1,
              a |-> [m EXCEPT !.client_frames = 0],
              jb |-> IF OutHasPeriod(a.shadow_frames, a.client_frames, frames)
                     THEN copy_to_jack(a, a.shadow_offset, frames) ELSE jb]

\* Mutant of FramesOut_get: the frames the client wrote in this tick are not
\* skipped.
FramesOut_get_noclient(a) == a.shadow_offset + a.shadow_frames

\* FramesOutPortConverter::get: the shadow offset of the returned pointer.
FramesOut_get(a) == a.shadow_offset + a.shadow_frames + a.client_frames

\* Mutant of update_client_frames: one frame is counted, not one period.
update_client_frames_one(a, dst) == [a EXCEPT !.client_frames = a.client_frames + 1]

\* FramesOutPortConverter::update_client_frames
update_client_frames(a, dst) == [a EXCEPT !.client_frames = a.client_frames + dst]

\* ------------------------------------------------------ JackBufferConverter
\* Mutant of calculate_silence_prefill: no prefill when the server period
\* divides the client period.
calculate_silence_prefill_nodiff(client_per_size, server_per_size) ==
    IF server_per_size > client_per_size
    THEN IF server_per_size % client_per_size = 0 THEN 0 ELSE client_per_size
    ELSE IF server_per_size < client_per_size
    THEN IF client_per_size % server_per_size = 0 THEN 0 ELSE client_per_size
    ELSE 0

\* Mutant of calculate_silence_prefill: a server period of silence when
\* neither period divides the other.
calculate_silence_prefill_server(client_per_size, server_per_size) ==
    IF server_per_size > client_per_size
    THEN IF server_per_size % client_per_size = 0 THEN 0 ELSE server_per_size
    ELSE IF server_per_size < client_per_size
    THEN IF client_per_size % server_per_size = 0
         THEN client_per_size - server_per_size
         ELSE server_per_size
    ELSE 0

\* Mutant of calculate_silence_prefill: the two periods taken for each other.
calculate_silence_prefill_swapped(client_per_size, server_per_size) ==
    IF client_per_size > server_per_size
    THEN IF client_per_size % server_per_size = 0 THEN 0 ELSE server_per_size
    ELSE IF client_per_size < server_per_size
    THEN IF server_per_size % client_per_size = 0
         THEN server_per_size - client_per_size
         ELSE server_per_size
    ELSE 0

\* calculate_silence_prefill(client_per_size, server_per_size)
calculate_silence_prefill(client_per_size, server_per_size) ==
    IF server_per_size > client_per_size
    THEN IF server_per_size % client_per_size = 0 THEN 0 ELSE client_per_size
    ELSE IF server_per_size < client_per_size
    THEN IF client_per_size % server_per_size = 0
         THEN client_per_size - server_per_size
         ELSE client_per_size
    ELSE 0

\* Mutant of PortsNext: only the first port of the list is advanced.
PortsNext_first(ports, i, result, ads, jbs, frames, dst, src) ==
    LET p == ports[1]
        o == IF ads[p].dir = "in"
             THEN FramesIn_next(ads[p], frames, dst, src)
             ELSE FramesOut_next(ads[p], frames, dst, jbs[p])
    IN  IF o.r < 0 THEN [r |-> o.r, ads |-> ads, jbs |-> jbs]
        ELSE [r |-> IF o.r < result THEN o.r ELSE result,
              ads |-> [ads EXCEPT ![p] = o.a],
              jbs |-> IF ads[p].dir = "in" THEN jbs ELSE [jbs EXCEPT ![p] = o.jb]]

\* The loop of JackBufferConverter::next over ports[i ..]: each port's next in
\* list order, the minimum of the results, the first negative result at once.
\* src is the server buffer of the input ports in this tick.
RECURSIVE PortsNext(_, _, _, _, _, _, _, _)
PortsNext(ports, i, result, ads, jbs, frames, dst, src) ==
    IF i > Len(ports) THEN [r |-> result, ads |-> ads, jbs |-> jbs]
    ELSE LET p == ports[i]
             o == IF ads[p].dir = "in"
                  THEN FramesIn_next(ads[p], frames, dst, src)
                  ELSE FramesOut_next(ads[p], frames, dst, jbs[p])
         IN  IF o.r < 0 THEN [r |-> o.r, ads |-> ads, jbs |-> jbs]
             ELSE PortsNext(ports, i + 1, IF o.r < result THEN o.r ELSE result,
                            [ads EXCEPT ![p] = o.a],
                            IF ads[p].dir = "in" THEN jbs
                            ELSE [jbs EXCEPT ![p] = o.jb],
                            frames, dst, src)

\* Heap operations of one call of JackBufferConverter::next: its parameter
\* std::vector<FramesPortConverter*> ports is passed by value, the copy
\* allocates its storage on entry and frees it on return unless it is empty.
VectorCopyHeapOps(ports) == IF ports = <<>> THEN 0 ELSE 2

\* JackBufferConverter::next(frames, ports)
JackBufferConverter_next(ports, ads, jbs, frames, dst, src) ==
    IF ports = <<>> THEN [r |-> 0 - 1, ads |-> ads, jbs |-> jbs]
    ELSE PortsNext(ports, 1, 1, ads, jbs, frames, dst, src)

\* JackBufferConverter::add(port, flags)
JackBufferConverter_add(list, port) == Append(list, port)

\* ------------------------------------------------------------------- client
\* The input port whose frames inprocess copies to output port o.
ClientSource(o, inports) ==
    LET partner == IF o = "out1" THEN "in1" ELSE "in2" IN
    IF \E k \in 1 .. Len(inports) : inports[k] = partner THEN partner
    ELSE inports[1]

\* inprocess(nframes, arg) on one output port: get on the input handle, get on
\* the output handle, memcpy of nframes frames, set with the pointer get gave.
inprocess(o, ads, inports, nframes) ==
    LET in == ads[ClientSource(o, inports)]
        w  == FramesOut_get(ads[o])
    IN  [ads[o] EXCEPT !.buffer = ShadowWrite(ads[o].buffer, w, nframes,
                          [i \in 0 .. nframes - 1 |-> ShadowRead(in.buffer, i)])]

\* ---------------------------------------------- one tick of the input side
\* The while loop of converter on one input adapter a in tick n, with a client
\* callback that returns 0: [a |-> adapter after the loop, cbs |-> client
\* callbacks fired, counted on from cbs].
RECURSIVE InputLoop(_, _, _, _, _)
InputLoop(a, frames, dst, n, cbs) ==
    LET o == FramesIn_next(a, frames, dst, JackInBuffer(n, frames))
    IN  IF o.r >= 1 THEN InputLoop(o.a, frames, dst, n, cbs + 1)
        ELSE [a |-> o.a, cbs |-> cbs]

\* Ticks n .. last of an input adapter a: the sequence of
\* <<client callbacks fired in the tick, shadow_frames at its end>>.
RECURSIVE InputTicks(_, _, _, _, _)
InputTicks(a, frames, dst, n, last) ==
    IF n > last THEN <<>>
    ELSE LET o == InputLoop(a, frames, dst, n, 0)
         IN  <<<<o.cbs, o.a.shadow_frames>>>>
                \o InputTicks(o.a, frames, dst, n + 1, last)

\* The first `last` ticks of a fresh INT32 input adapter of an aggregator with
\* server period frames and client period dst.
InputRun(frames, dst, last) ==
    InputTicks(FramesInPortConverter("INT32", 64,
                                     calculate_silence_prefill(dst, frames)),
               frames, dst, 1, last)

\* Scenario "server larger, exact multiple": S = 128, C = 64, two ticks.
ServerMultipleRun == InputRun(128, 64, 2)

\* Scenario "server smaller, exact multiple": S = 32, C = 128, five ticks.
ServerSmallerRun == InputRun(32, 128, 5)

\* Scenario "non-divisible, server larger": S = 100, C = 64, two ticks.
ServerLargerRun == InputRun(100, 64, 2)

\* ------------------------------------------------------------ specification
\* No converter created, no buffer asked for, no pointer returned, no call made.
NoHandle == [kind |-> "none", conv |-> <<>>, buffer |-> 0]
NoBuffer == [null |-> TRUE, data |-> <<>>]
NoPointer == [p |-> 0 - 1, frames |-> 0]
NoCall == [op |-> "none", frames |-> 0, src |-> 0]

\* Nothing has been destroyed: ports are the adapters deleted by
\* jack_port_destroy_convert, inner counts the deletions of each adapter's
\* inner converter, aggregator tells whether jack_buffer_destroy_convert
\* deleted the aggregator.
NoneFreed == [ports |-> {}, inner |-> [p \in PortNames |-> 0], aggregator |-> FALSE]

\* The address of the JackBufferConverter that new returns.
AggregatorAddr == 12288

\* The address of the JackFormatConverterHandle_t the client passes as arg.
ArgAddr == 16384

\* The host and the client's arg after jack_buffer_create_convert succeeded:
\* arg->handle holds the aggregator, stored once, converter is the one process
\* callback of the client, and the aggregator was returned.
Constructed ==
    [arg |-> ArgAddr, handle |-> AggregatorAddr, stores |-> 1,
     process_callbacks |-> 1, returned |-> AggregatorAddr,
     set_called |-> TRUE, set_ret |-> 0]

Init ==
    /\ jack_buffer_size \in 1 .. BUFFER_SIZE_MAX
    /\ dst_frames \in 1 .. BUFFER_SIZE_MAX
    /\ silence_prefil = calculate_silence_prefill(dst_frames, jack_buffer_size)
    /\ dst_type \in DstTypes
    /\ InPorts = <<>>
    /\ OutPorts = <<>>
    /\ adapters = << >>
    /\ jack_buffer = << >>
    /\ phase = "setup"
    /\ pc = "idle"
    /\ ticks = 0
    /\ callbacks = 0
    /\ cb_nframes = 0
    /\ cb_ret = 0
    /\ loop_ret = 0
    /\ ret = 0
    /\ trace = <<>>
    /\ handle = NoHandle
    /\ port_buffer = NoBuffer
    /\ got = NoPointer
    /\ call = NoCall
    /\ api_calls = 0
    /\ host = Constructed
    /\ heap_ops = 0
    /\ freed = NoneFreed

\* Port q precedes port p in the client's creation order.
CreatedBefore(q, p) ==
    \E i, j \in 1 .. Len(PortOrder) : i < j /\ PortOrder[i] = q /\ PortOrder[j] = p

\* jack_port_create_convert(port, dst_type, init_output_silence, iconv) with
\* the aggregator as iconv; the allocator places the shadow storage at addr.
jack_port_create_convert(port, addr) ==
    /\ phase = "setup"
    /\ port \notin DOMAIN adapters
    /\ \A q \in DOMAIN adapters : CreatedBefore(q, port)
    /\ adapters' = [q \in DOMAIN adapters \cup {port} |->
                      IF q # port THEN adapters[q]
                      ELSE IF port \in OutputPortNames
                           THEN FramesOutPortConverter(dst_type, addr)
                           ELSE FramesInPortConverter(dst_type, addr, silence_prefil)]
    /\ IF port \in OutputPortNames
       THEN /\ OutPorts' = JackBufferConverter_add(OutPorts, port)
            /\ jack_buffer' = [q \in DOMAIN jack_buffer \cup {port} |->
                                 IF q # port THEN jack_buffer[q]
                                 ELSE [j \in 0 .. jack_buffer_size - 1 |-> Junk]]
            /\ UNCHANGED InPorts
       ELSE /\ InPorts' = JackBufferConverter_add(InPorts, port)
            /\ UNCHANGED <<OutPorts, jack_buffer>>
    /\ UNCHANGED <<jack_buffer_size, dst_frames, silence_prefil, dst_type, phase,
                   pc, ticks, callbacks, cb_nframes, cb_ret, loop_ret, ret, trace,
                   heap_ops>>
    /\ UNCHANGED apiVars

\* jack_activate(client): the host starts to call the process callback.
jack_activate ==
    /\ phase = "setup"
    /\ phase' = "running"
    /\ UNCHANGED <<jack_buffer_size, dst_frames, silence_prefil, dst_type, InPorts,
                   OutPorts, adapters, jack_buffer, pc, ticks, callbacks,
                   cb_nframes, cb_ret, loop_ret, ret, trace, heap_ops>>
    /\ UNCHANGED apiVars

\* The host calls JackBufferConverter::converter(frames, arg).
converter_enter ==
    /\ phase = "running"
    /\ pc = "idle"
    /\ ticks < MaxTicks
    /\ ticks' = ticks + 1
    /\ trace' = <<>>
    /\ heap_ops' = 0
    /\ pc' = "next_in"
    /\ UNCHANGED <<jack_buffer_size, dst_frames, silence_prefil, dst_type, InPorts,
                   OutPorts, adapters, jack_buffer, phase, callbacks, cb_nframes,
                   cb_ret, loop_ret, ret>>
    /\ UNCHANGED apiVars

\* Mutant of AfterNextIn: converter returns when the loop ends.
AfterNextIn_return(r) == IF r >= 1 THEN "callback" ELSE "idle"

\* while ((ret = conv->next(frames, conv->InPorts)) >= 1): where converter
\* goes with the value r of ret.
AfterNextIn(r) == IF r >= 1 THEN "callback" ELSE "next_out"

\* The loop condition of converter: ret = conv->next(frames, conv->InPorts).
converter_next_in ==
    /\ pc = "next_in"
    /\ LET o == JackBufferConverter_next(InPorts, adapters, jack_buffer,
                    jack_buffer_size, dst_frames,
                    JackInBuffer(ticks, jack_buffer_size))
       IN  /\ adapters' = o.ads
           /\ loop_ret' = o.r
           /\ pc' = AfterNextIn(o.r)
    /\ trace' = Append(trace, "in")
    /\ heap_ops' = heap_ops + VectorCopyHeapOps(InPorts)
    /\ UNCHANGED <<jack_buffer_size, dst_frames, silence_prefil, dst_type, InPorts,
                   OutPorts, jack_buffer, phase, ticks, callbacks, cb_nframes, cb_ret,
                   ret>>
    /\ UNCHANGED apiVars

\* Mutant of CallbackFrames: the server period is passed on.
CallbackFrames_server == jack_buffer_size

\* The nframes converter passes to the client callback.
CallbackFrames == dst_frames

\* if (cb_ret < 0) return cb_ret;
CallbackAborts(r) == r < 0

\* Mutant of AbortReturn: a fixed error code.
AbortReturn_fixed(r) == 0 - 1

\* The value converter returns when the client callback returned r < 0.
AbortReturn(r) == r

\* cb_ret = conv->callback(conv->dst_frames, conv->arg), returning r; a
\* negative r is returned to the host, which terminates the client.
client_callback(r) ==
    /\ pc = "callback"
    /\ callbacks' = callbacks + 1
    /\ cb_nframes' = CallbackFrames
    /\ cb_ret' = r
    /\ trace' = Append(trace, "cb")
    /\ IF CallbackAborts(r)
       THEN /\ ret' = AbortReturn(r)
            /\ phase' = "terminated"
            /\ pc' = "idle"
            /\ UNCHANGED adapters
       ELSE /\ adapters' = [p \in DOMAIN adapters |->
                              IF adapters[p].dir = "out"
                              THEN inprocess(p, adapters, InPorts, CallbackFrames)
                              ELSE adapters[p]]
            /\ pc' = "update"
            /\ UNCHANGED <<ret, phase>>
    /\ UNCHANGED <<jack_buffer_size, dst_frames, silence_prefil, dst_type, InPorts,
                   OutPorts, jack_buffer, ticks, loop_ret, heap_ops>>
    /\ UNCHANGED apiVars

\* for (auto& port : conv->OutPorts) port->update_client_frames();
converter_update ==
    /\ pc = "update"
    /\ adapters' = [p \in DOMAIN adapters |->
                      IF \E k \in 1 .. Len(OutPorts) : OutPorts[k] = p
                      THEN update_client_frames(adapters[p], dst_frames)
                      ELSE adapters[p]]
    /\ trace' = Append(trace, "upd")
    /\ pc' = "next_in"
    /\ UNCHANGED <<jack_buffer_size, dst_frames, silence_prefil, dst_type, InPorts,
                   OutPorts, jack_buffer, phase, ticks, callbacks, cb_nframes,
                   cb_ret, loop_ret, ret, heap_ops>>
    /\ UNCHANGED apiVars

\* The value converter returns once the loop has ended.
ConverterReturn(outport_ret, in_ret) == IF outport_ret < 0 THEN outport_ret ELSE in_ret

\* outport_ret = conv->next(frames, conv->OutPorts) and the return of converter;
\* the host terminates the client on a return other than 0.
converter_next_out ==
    /\ pc = "next_out"
    /\ LET o == JackBufferConverter_next(OutPorts, adapters, jack_buffer,
                    jack_buffer_size, dst_frames,
                    JackInBuffer(ticks, jack_buffer_size))
           rv == ConverterReturn(o.r, loop_ret)
       IN  /\ adapters' = o.ads
           /\ jack_buffer' = o.jbs
           /\ ret' = rv
           /\ phase' = IF rv # 0 THEN "terminated" ELSE phase
    /\ trace' = Append(trace, "out")
    /\ heap_ops' = heap_ops + VectorCopyHeapOps(OutPorts)
    /\ pc' = "idle"
    /\ UNCHANGED <<jack_buffer_size, dst_frames, silence_prefil, dst_type, InPorts,
                   OutPorts, ticks, callbacks, cb_nframes, cb_ret, loop_ret>>
    /\ UNCHANGED apiVars

Next ==
    \/ \E port \in PortNames, addr \in BufAddrs : jack_port_create_convert(port, addr)
    \/ jack_activate
    \/ converter_enter
    \/ converter_next_in
    \/ \E r \in CallbackReturns : client_callback(r)
    \/ converter_update
    \/ converter_next_out

Spec == Init /\ [][Next]_vars

\* The events the steps of converter append to trace.
TickEvents == {"in", "cb", "upd", "out"}

\* Some step of a process callback that has been entered and has not returned.
TickStep == pc # "idle" /\ trace' \in {Append(trace, e) : e \in TickEvents}

\* The process callback runs to completion on the server thread: while it has
\* not returned, its next step (a pass over the input adapters, the client
\* callback, which returns, the update of the output adapters or the pass over
\* the output adapters) is never postponed for ever.
FairSpec == Spec /\ WF_trace(TickStep)

\* ------------------------------------------------- the C API, call by call
\* A client drives one converter through jack_port_create_convert,
\* jack_port_convert_get and jack_port_convert_set, the host hands out (or
\* refuses) the server buffer of its port cycle by cycle, and the aggregator
\* calls next and update_client_frames on a period adapter.

\* NULL, the address of the server buffer of the port and the address of a
\* buffer the client owns.
NULL == 0
JackBufferAddr == 4096
ClientBufferAddr == 8192

\* JackPortIsOutput of JackPortFlags.
JackPortIsOutput == 2

\* Values jack_port_flags may return: failure, an input port, a physical
\* terminal output port.
PortFlags == {0 - 1, 1, 22}

\* Values a caller may pass as dst_type, one of them no JackPortConverterFormat_t.
ApiDstTypes == DstTypes \cup {"UNSUPPORTED"}

\* The name under which the created adapter enters the aggregator's lists.
ApiPort == "port"

\* API calls explored.
MaxApiCalls == 5

\* Mutant of IsOutputPort: the JackPortIsInput bit is tested.
IsOutputPort_input(flags) == flags % 2 = 1

\* flags & JackPortIsOutput
IsOutputPort(flags) == (flags \div JackPortIsOutput) % 2 = 1

\* ShadowBufferJackPortConverter / IntegerJackPortConverter constructor.
ShadowBufferJackPortConverter(fmt, addr) ==
    [fmt |-> fmt, addr |-> addr,
     buffer |-> [i \in 0 .. ShadowCapacity(fmt, addr) - 1 |-> Junk]]

\* get_shadow_buffer(offset): the address.
get_shadow_buffer(c, offset) ==
    GET_32BYTE_ALIGN_BUFFER(c.addr) + offset * SampleSize(c.fmt)

\* jack_port_create_convert(port, dst, init_output_silence, iconv) for a port
\* whose jack_port_flags are flags, the allocator placing a shadow storage at
\* addr, with the lists ins and outs of the aggregator:
\* [handle |-> the converter returned, InPorts, OutPorts |-> the lists after].
PortCreateConvert(dst, iconv, flags, addr, prefill, ins, outs) ==
    LET failed == [handle |-> [kind |-> "null", conv |-> <<>>, buffer |-> NULL],
                   InPorts |-> ins, OutPorts |-> outs]
    IN  IF dst \notin DstTypes THEN failed
        ELSE IF dst = "DEFAULT" /\ ~iconv
        THEN [handle |-> [kind |-> "Forward", conv |-> <<>>, buffer |-> NULL],
              InPorts |-> ins, OutPorts |-> outs]
        ELSE IF ~iconv
        THEN [handle |-> [kind |-> "Integer",
                          conv |-> ShadowBufferJackPortConverter(dst, addr),
                          buffer |-> NULL],
              InPorts |-> ins, OutPorts |-> outs]
        ELSE IF flags < 0 THEN failed
        ELSE IF IsOutputPort(flags)
        THEN [handle |-> [kind |-> "FramesOut",
                          conv |-> FramesOutPortConverter(dst, addr),
                          buffer |-> NULL],
              InPorts |-> ins,
              OutPorts |-> JackBufferConverter_add(outs, ApiPort)]
        ELSE [handle |-> [kind |-> "FramesIn",
                          conv |-> FramesInPortConverter(dst, addr, prefill),
                          buffer |-> NULL],
              InPorts |-> JackBufferConverter_add(ins, ApiPort),
              OutPorts |-> outs]

\* The sample format behind a handle.
HandleFmt(h) == IF h.kind = "Forward" THEN "DEFAULT" ELSE h.conv.fmt

\* Frame i of the buffer the client owns, in the format of the handle.
ClientCell(fmt, i) ==
    [t |-> 100 + i, v |-> IF fmt = "DEFAULT" THEN <<"f", 1>> ELSE <<"i", i + 1>>]

\* The shadow offset an address inside the shadow buffer of c stands for.
ShadowOffsetOf(c, ptr) == (ptr - GET_32BYTE_ALIGN_BUFFER(c.addr)) \div SampleSize(c.fmt)

\* Frame i of the memory at address src.
MemoryAt(h, pb, src, i) ==
    IF src = ClientBufferAddr THEN ClientCell(HandleFmt(h), i)
    ELSE IF src = JackBufferAddr THEN pb.data[i]
    ELSE ShadowRead(h.conv.buffer, ShadowOffsetOf(h.conv, src) + i)

\* ForwardJackPortConverter::get
Forward_get(h, pb) ==
    LET p == IF pb.null THEN NULL ELSE JackBufferAddr
    IN  [p |-> p, h |-> [h EXCEPT !.buffer = p]]

\* ShadowBufferJackPortConverter::get: copy_from_jack(0, 0, frames).
Shadow_get(h, pb, frames) ==
    IF pb.null THEN [p |-> NULL, h |-> h]
    ELSE [p |-> get_shadow_buffer(h.conv, 0),
          h |-> [h EXCEPT !.conv = copy_from_jack(h.conv, 0, 0, frames, pb.data)]]

\* FramesPortConverter::get
FramesPort_get(h, frames, dst) ==
    IF frames # dst THEN [p |-> NULL, h |-> h]
    ELSE [p |-> get_shadow_buffer(h.conv, 0), h |-> h]

\* FramesOutPortConverter::get
FramesOutPort_get(h, frames, dst) ==
    IF frames # dst THEN [p |-> NULL, h |-> h]
    ELSE [p |-> get_shadow_buffer(h.conv, FramesOut_get(h.conv)), h |-> h]

\* jack_port_convert_get(handle, frames): [p |-> pointer, h |-> handle after].
jack_port_convert_get(h, pb, frames, dst) ==
    IF h.kind = "Forward" THEN Forward_get(h, pb)
    ELSE IF h.kind \in {"Shadow", "Integer"} THEN Shadow_get(h, pb, frames)
    ELSE IF h.kind = "FramesIn" THEN FramesPort_get(h, frames, dst)
    ELSE FramesOutPort_get(h, frames, dst)

\* The server buffer after frames frames of memory at src were stored in it,
\* each converted by to_jack of format fmt.
StoreToJack(h, pb, fmt, src, frames) ==
    [pb EXCEPT !.data = [j \in DOMAIN pb.data |->
        IF j < frames THEN ToJack(fmt, MemoryAt(h, pb, src, j)) ELSE pb.data[j]]]

\* ForwardJackPortConverter::set: [h |-> handle, pb |-> server buffer after].
Forward_set(h, pb, src, frames) ==
    IF src = h.buffer THEN [h |-> h, pb |-> pb]
    ELSE [h |-> h, pb |-> StoreToJack(h, pb, "DEFAULT", src, frames)]

\* Mutant of Shadow_set: nothing is copied to the server buffer.
Shadow_set_skip(h, pb, src, frames) == [h |-> h, pb |-> pb]

\* ShadowBufferJackPortConverter::set: copy_to_jack(src, 0, 0, frames).
Shadow_set(h, pb, src, frames) ==
    IF pb.null THEN [h |-> h, pb |-> pb]
    ELSE [h |-> h, pb |-> StoreToJack(h, pb, h.conv.fmt, src, frames)]

\* FramesInPortConverter::set
FramesInPort_set(h, pb, src, frames) == [h |-> h, pb |-> pb]

\* Mutant of FramesOut_set_offset: the frames the client wrote in this tick
\* are not skipped.
FramesOut_set_offset_noclient(a) == a.shadow_offset + a.shadow_frames

\* FramesOutPortConverter::set: the shadow offset of buf.
FramesOut_set_offset(a) == a.shadow_offset + a.shadow_frames + a.client_frames

\* FramesOutPortConverter::set
FramesOutPort_set(h, pb, src, frames) ==
    LET off == FramesOut_set_offset(h.conv)
    IN  IF src = get_shadow_buffer(h.conv, off) THEN [h |-> h, pb |-> pb]
        ELSE [h |-> [h EXCEPT !.conv.buffer =
                        ShadowWrite(h.conv.buffer, off, frames,
                            [i \in 0 .. frames - 1 |-> MemoryAt(h, pb, src, i)])],
              pb |-> pb]

\* jack_port_convert_set(handle, buf, frames)
jack_port_convert_set(h, pb, src, frames) ==
    IF h.kind = "Forward" THEN Forward_set(h, pb, src, frames)
    ELSE IF h.kind \in {"Shadow", "Integer"} THEN Shadow_set(h, pb, src, frames)
    ELSE IF h.kind = "FramesIn" THEN FramesInPort_set(h, pb, src, frames)
    ELSE FramesOutPort_set(h, pb, src, frames)

\* FramesInPortConverter::next when jack_port_get_buffer may return NULL:
\* copy_from_jack then returns before it copies, the counters move all the same.
FramesIn_next_port(a, frames, dst, pb) ==
    LET o == FramesIn_next(a, frames, dst, pb.data)
    IN  IF pb.null THEN [r |-> o.r, a |-> [o.a EXCEPT !.buffer = a.buffer]]
        ELSE o

\* FramesOutPortConverter::next when jack_port_get_buffer may return NULL:
\* copy_to_jack then returns before it copies.
FramesOut_next_port(a, frames, dst, pb) ==
    LET o == FramesOut_next(a, frames, dst, pb.data)
    IN  [r |-> o.r, a |-> o.a,
         pb |-> IF pb.null THEN pb ELSE [pb EXCEPT !.data = o.jb]]

\* The frames a caller passes: the period of the process callback to a plain
\* converter; to a period adapter the client period or, by mistake, one more.
CallFrames(h) ==
    IF h.kind \in {"FramesIn", "FramesOut"} THEN {dst_frames, dst_frames + 1}
    ELSE {jack_buffer_size}

\* Buffers a caller passes to set: the one get returned, or one of its own.
CallSources == {ClientBufferAddr} \cup (IF got.p > NULL THEN {got.p} ELSE {})

Alive == handle.kind \notin {"none", "null"}

InitApi ==
    /\ jack_buffer_size \in 1 .. BUFFER_SIZE_MAX
    /\ dst_frames \in 1 .. BUFFER_SIZE_MAX
    /\ silence_prefil = calculate_silence_prefill(dst_frames, jack_buffer_size)
    /\ dst_type \in ApiDstTypes
    /\ \E registered \in BOOLEAN :
          /\ InPorts = IF registered THEN <<"in1">> ELSE <<>>
          /\ OutPorts = IF registered THEN <<"out1">> ELSE <<>>
          /\ adapters = IF registered
                THEN [q \in {"in1", "out1"} |->
                        IF q = "in1"
                        THEN FramesInPortConverter("DEFAULT", 64, silence_prefil)
                        ELSE FramesOutPortConverter("DEFAULT", 64)]
                ELSE << >>
    /\ jack_buffer = << >>
    /\ phase = "api"
    /\ pc = "idle"
    /\ ticks = 0
    /\ callbacks = 0
    /\ cb_nframes = 0
    /\ cb_ret = 0
    /\ loop_ret = 0
    /\ ret = 0
    /\ trace = <<>>
    /\ handle = NoHandle
    /\ port_buffer = NoBuffer
    /\ got = NoPointer
    /\ call = NoCall
    /\ api_calls = 0
    /\ host = Constructed
    /\ heap_ops = 0
    /\ freed = NoneFreed

\* What the API calls leave alone.
apiFixed == <<jack_buffer_size, dst_frames, silence_prefil, dst_type, adapters,
              jack_buffer, phase, pc, callbacks, cb_nframes, cb_ret, loop_ret,
              ret, trace, host, freed, heap_ops>>

\* jack_port_create_convert(port, dst_type, false, iconv)
api_create(iconv, flags, addr) ==
    /\ handle.kind = "none"
    /\ LET o == PortCreateConvert(dst_type, iconv, flags, addr, silence_prefil,
                                  InPorts, OutPorts)
       IN  /\ handle' = o.handle
           /\ InPorts' = o.InPorts
           /\ OutPorts' = o.OutPorts
    /\ call' = [op |-> "create", frames |-> 0, src |-> NULL,
                iconv |-> iconv, flags |-> flags]
    /\ api_calls' = api_calls + 1
    /\ UNCHANGED <<apiFixed, ticks, port_buffer, got>>

\* The host starts a process cycle; in it jack_port_get_buffer returns the
\* server buffer of the port, or NULL.
api_cycle(null) ==
    /\ Alive
    /\ ticks < MaxTicks
    /\ api_calls < MaxApiCalls
    /\ ticks' = ticks + 1
    /\ port_buffer' = [null |-> null,
                       data |-> JackInBuffer(ticks + 1, jack_buffer_size)]
    /\ got' = NoPointer
    /\ call' = [op |-> "cycle", frames |-> jack_buffer_size, src |-> NULL]
    /\ api_calls' = api_calls + 1
    /\ UNCHANGED <<apiFixed, InPorts, OutPorts, handle>>

\* port->next(frames), called by the aggregator.
api_next ==
    /\ handle.kind \in {"FramesIn", "FramesOut"}
    /\ ticks >= 1
    /\ api_calls < MaxApiCalls
    /\ IF handle.kind = "FramesIn"
       THEN LET o == FramesIn_next_port(handle.conv, jack_buffer_size,
                                        dst_frames, port_buffer)
            IN  /\ handle' = [handle EXCEPT !.conv = o.a]
                /\ call' = [op |-> "next", frames |-> jack_buffer_size,
                            src |-> NULL, r |-> o.r]
                /\ UNCHANGED port_buffer
       ELSE LET o == FramesOut_next_port(handle.conv, jack_buffer_size,
                                         dst_frames, port_buffer)
            IN  /\ handle' = [handle EXCEPT !.conv = o.a]
                /\ port_buffer' = o.pb
                /\ call' = [op |-> "next", frames |-> jack_buffer_size,
                            src |-> NULL, r |-> o.r]
    /\ got' = NoPointer
    /\ api_calls' = api_calls + 1
    /\ UNCHANGED <<apiFixed, InPorts, OutPorts, ticks>>

\* port->update_client_frames(), called by the aggregator after a client
\* callback.
api_update ==
    /\ handle.kind = "FramesOut"
    /\ ticks >= 1
    /\ api_calls < MaxApiCalls
    /\ handle' = [handle EXCEPT !.conv = update_client_frames(handle.conv, dst_frames)]
    /\ got' = NoPointer
    /\ call' = [op |-> "update", frames |-> dst_frames, src |-> NULL]
    /\ api_calls' = api_calls + 1
    /\ UNCHANGED <<apiFixed, InPorts, OutPorts, ticks, port_buffer>>

\* jack_port_convert_get(handle, frames); on an input period adapter the
\* client callback makes it, which runs after next returned 1.
api_get(frames) ==
    /\ Alive
    /\ ticks >= 1
    /\ api_calls < MaxApiCalls
    /\ frames \in CallFrames(handle)
    /\ handle.kind = "FramesIn" => (call.op \in {"next", "get"} /\ call.r >= 1)
    /\ LET o == jack_port_convert_get(handle, port_buffer, frames, dst_frames)
       IN  /\ handle' = o.h
           /\ got' = [p |-> o.p, frames |-> frames]
    /\ call' = [op |-> "get", frames |-> frames, src |-> NULL,
                r |-> IF handle.kind = "FramesIn" THEN call.r ELSE 0]
    /\ api_calls' = api_calls + 1
    /\ UNCHANGED <<apiFixed, InPorts, OutPorts, ticks, port_buffer>>

\* The client stores got.frames frames of its own through the pointer get
\* returned.
api_write ==
    /\ handle.kind \in {"Forward", "Shadow", "Integer", "FramesOut"}
    /\ got.p > NULL
    /\ call.op = "get"
    /\ api_calls < MaxApiCalls
    /\ LET cells == [i \in 0 .. got.frames - 1 |-> ClientCell(HandleFmt(handle), i)]
       IN  IF got.p = JackBufferAddr
           THEN /\ port_buffer' = [port_buffer EXCEPT !.data =
                       [j \in DOMAIN port_buffer.data |->
                          IF j < got.frames THEN cells[j] ELSE port_buffer.data[j]]]
                /\ UNCHANGED handle
           ELSE /\ handle' = [handle EXCEPT !.conv.buffer =
                       ShadowWrite(handle.conv.buffer,
                                   ShadowOffsetOf(handle.conv, got.p),
                                   got.frames, cells)]
                /\ UNCHANGED port_buffer
    /\ call' = [op |-> "write", frames |-> got.frames, src |-> NULL]
    /\ api_calls' = api_calls + 1
    /\ UNCHANGED <<apiFixed, InPorts, OutPorts, ticks, got>>

\* jack_port_convert_set(handle, src, frames). A Forward converter stores
\* through the pointer jack_port_get_buffer returns without a test for NULL;
\* the call is left out where that pointer is NULL.
api_set(src, frames) ==
    /\ Alive
    /\ ticks >= 1
    /\ api_calls < MaxApiCalls
    /\ frames \in CallFrames(handle)
    /\ src \in CallSources
    /\ handle.kind = "Forward" => (~port_buffer.null \/ src = handle.buffer)
    /\ LET o == jack_port_convert_set(handle, port_buffer, src, frames)
       IN  /\ handle' = o.h
           /\ port_buffer' = o.pb
    /\ call' = [op |-> "set", frames |-> frames, src |-> src]
    /\ api_calls' = api_calls + 1
    /\ UNCHANGED <<apiFixed, InPorts, OutPorts, ticks, got>>

NextApi ==
    \/ \E iconv \in BOOLEAN, flags \in PortFlags, addr \in BufAddrs :
          api_create(iconv, flags, addr)
    \/ \E null \in BOOLEAN : api_cycle(null)
    \/ api_next
    \/ api_update
    \/ \E frames \in 1 .. BUFFER_SIZE_MAX + 1 : api_get(frames)
    \/ api_write
    \/ \E src \in CallSources, frames \in 1 .. BUFFER_SIZE_MAX + 1 : api_set(src, frames)

SpecApi == InitApi /\ [][NextApi]_vars

\* ------------------------------------------ construction of the aggregator
\* Values the client may pass as arg.
ArgValues == {NULL, ArgAddr}

\* Values jack_set_process_callback may return.
SetProcessCallbackReturns == {0, 0 - 1}

\* The host and the client's arg before jack_buffer_create_convert is called.
NotConstructed ==
    [arg |-> NULL, handle |-> NULL, stores |-> 0, process_callbacks |-> 0,
     returned |-> NULL, set_called |-> FALSE, set_ret |-> 0]

\* Mutant of JackBufferConverter_new: the process callback is registered
\* before arg is tested.
JackBufferConverter_new_register_first(h, arg, set_ret) ==
    LET called == [h EXCEPT !.arg = arg, !.set_called = TRUE, !.set_ret = set_ret]
    IN  IF set_ret # 0 THEN called
        ELSE IF arg = NULL THEN [called EXCEPT !.process_callbacks = 1]
        ELSE [called EXCEPT !.process_callbacks = 1,
                            !.handle = AggregatorAddr, !.stores = h.stores + 1,
                            !.returned = AggregatorAddr]

\* new JackBufferConverter(client, cb, arg, dst_frames) inside the try block of
\* jack_buffer_create_convert, with set_ret the value jack_set_process_callback
\* returns if it is called: a constructor that throws makes the function
\* return NULL.
JackBufferConverter_new(h, arg, set_ret) ==
    IF arg = NULL THEN [h EXCEPT !.arg = arg]
    ELSE LET stored == [h EXCEPT !.arg = arg, !.handle = AggregatorAddr,
                                 !.stores = h.stores + 1,
                                 !.set_called = TRUE, !.set_ret = set_ret]
         IN  IF set_ret # 0 THEN stored
             ELSE [stored EXCEPT !.process_callbacks = 1,
                                 !.returned = AggregatorAddr]

InitLife ==
    /\ jack_buffer_size \in 1 .. BUFFER_SIZE_MAX
    /\ dst_frames \in 1 .. BUFFER_SIZE_MAX
    /\ silence_prefil = 0
    /\ dst_type \in DstTypes
    /\ InPorts = <<>>
    /\ OutPorts = <<>>
    /\ adapters = << >>
    /\ jack_buffer = << >>
    /\ phase = "create"
    /\ pc = "idle"
    /\ ticks = 0
    /\ callbacks = 0
    /\ cb_nframes = 0
    /\ cb_ret = 0
    /\ loop_ret = 0
    /\ ret = 0
    /\ trace = <<>>
    /\ handle = NoHandle
    /\ port_buffer = NoBuffer
    /\ got = NoPointer
    /\ call = NoCall
    /\ api_calls = 0
    /\ host = NotConstructed
    /\ heap_ops = 0
    /\ freed = NoneFreed

\* jack_buffer_create_convert(client, cb, arg, dst_frames)
jack_buffer_create_convert(arg, set_ret) ==
    /\ phase = "create"
    /\ host' = JackBufferConverter_new(host, arg, set_ret)
    /\ phase' = IF host'.returned = NULL THEN "failed" ELSE "setup"
    /\ silence_prefil' = IF host'.returned = NULL THEN silence_prefil
                         ELSE calculate_silence_prefill(dst_frames, jack_buffer_size)
    /\ UNCHANGED <<jack_buffer_size, dst_frames, dst_type, InPorts, OutPorts,
                   adapters, jack_buffer, pc, ticks, callbacks, cb_nframes, cb_ret,
                   loop_ret, ret, trace, heap_ops, freed, handle, port_buffer, got,
                   call,
                   api_calls>>

NextLife ==
    \/ \E arg \in ArgValues, set_ret \in SetProcessCallbackReturns :
          jack_buffer_create_convert(arg, set_ret)
    \/ Next

\* The client from jack_buffer_create_convert on.
SpecLife == InitLife /\ [][NextLife]_vars

\* ------------------------------------- a host that goes on after an error
\* The host does not remove the client after a process callback that returned
\* a value other than 0 and calls converter again in the next period.
host_resume ==
    /\ phase = "terminated"
    /\ pc = "idle"
    /\ phase' = "running"
    /\ UNCHANGED <<jack_buffer_size, dst_frames, silence_prefil, dst_type, InPorts,
                   OutPorts, adapters, jack_buffer, pc, ticks, callbacks,
                   cb_nframes, cb_ret, loop_ret, ret, trace, heap_ops>>
    /\ UNCHANGED apiVars

\* The client of inprocess_period.cpp: its ports convert to
\* JACK_PORT_CONV_FMT_INT32.
InitResume == Init /\ dst_type = "INT32"

NextResume == Next \/ host_resume

SpecResume == InitResume /\ [][NextResume]_vars

\* ---------------------------------------------------- destroy functions
\* delete of a FramesPortConverter: ~FramesPortConverter deletes the inner
\* converter, then the adapter itself is freed.
FramesPortConverter_delete(f, port) ==
    [f EXCEPT !.ports = f.ports \cup {port}, !.inner[port] = f.inner[port] + 1]

\* delete of the JackBufferConverter: its two vectors are freed, the adapters
\* they point to are not.
JackBufferConverter_delete(f) == [f EXCEPT !.aggregator = TRUE]

\* The ports of a list whose adapter has been deleted.
Dangling(ports) == {ports[k] : k \in 1 .. Len(ports)} \cap freed.ports

\* jack_port_destroy_convert(handle) between two process callbacks, on a
\* handle that was not destroyed before. The aggregator's lists keep the
\* pointer and the freed memory keeps its contents.
jack_port_destroy_convert(port) ==
    /\ phase \in {"setup", "running", "terminated"}
    /\ pc = "idle"
    /\ port \in DOMAIN adapters
    /\ port \notin freed.ports
    /\ freed' = FramesPortConverter_delete(freed, port)
    /\ UNCHANGED <<jack_buffer_size, dst_frames, silence_prefil, dst_type, InPorts,
                   OutPorts, adapters, jack_buffer, phase, pc, ticks, callbacks,
                   cb_nframes, cb_ret, loop_ret, ret, trace, heap_ops>>
    /\ UNCHANGED <<handle, port_buffer, got, call, api_calls, host>>

\* jack_buffer_destroy_convert(handle) between two process callbacks, on a
\* handle that was not destroyed before. The process callback stays
\* registered with the host.
jack_buffer_destroy_convert ==
    /\ phase \in {"setup", "running", "terminated"}
    /\ pc = "idle"
    /\ ~freed.aggregator
    /\ freed' = JackBufferConverter_delete(freed)
    /\ UNCHANGED <<jack_buffer_size, dst_frames, silence_prefil, dst_type, InPorts,
                   OutPorts, adapters, jack_buffer, phase, pc, ticks, callbacks,
                   cb_nframes, cb_ret, loop_ret, ret, trace, heap_ops>>
    /\ UNCHANGED <<handle, port_buffer, got, call, api_calls, host>>

\* converter reads a deleted aggregator or calls next on a deleted adapter:
\* the behaviour is undefined. Either the freed memory still holds the
\* objects and the tick is the one of the live objects, or the process ends
\* in this tick.
use_after_free ==
    /\ pc = "next_in"
    /\ trace = <<>>
    /\ freed.aggregator \/ Dangling(InPorts) # {} \/ Dangling(OutPorts) # {}
    /\ phase' = "crashed"
    /\ pc' = "idle"
    /\ UNCHANGED <<jack_buffer_size, dst_frames, silence_prefil, dst_type, InPorts,
                   OutPorts, adapters, jack_buffer, ticks, callbacks, cb_nframes,
                   cb_ret, loop_ret, ret, trace, heap_ops>>
    /\ UNCHANGED apiVars

\* The client of inprocess_period.cpp: its ports convert to
\* JACK_PORT_CONV_FMT_INT32.
InitDestroy == Init /\ dst_type = "INT32"

NextDestroy ==
    \/ Next
    \/ \E port \in PortNames : jack_port_destroy_convert(port)
    \/ jack_buffer_destroy_convert
    \/ use_after_free

SpecDestroy == InitDestroy /\ [][NextDestroy]_vars

\* ------------------------------------------- float to integer, one sample
\* Float samples the server may deliver to from_jack: -3.0 .. +3.0 in quarters
\* and a NaN.
ConvInputs == {<<"f", q>> : q \in (0 - 12) .. 12} \cup {<<"nan", 0>>}

\* INT32_MIN
INT32_MIN == (0 - 2147483647) - 1

\* What *dst = lrintf(x) stores for a NaN x. lrintf leaves the value
\* unspecified: builds with a 64 bit long store the low bits of LONG_MIN or of
\* 0, which are 0; builds with a 32 bit long on x86 store LONG_MIN.
LrintfNaN(fmt) == IF fmt = "INT32" THEN {0, INT32_MIN} ELSE {0}

\* The samples sample_move_d32_sS / sample_move_d16_sS may store for x: a NaN
\* passes both comparisons with the bounds and reaches lrintf.
SampleMoveResults(fmt, x) ==
    IF x[1] = "nan" THEN {<<"i", r>> : r \in LrintfNaN(fmt)}
    ELSE {FromJack(fmt, [t |-> 1, v |-> x]).v}

InitConv ==
    /\ jack_buffer_size = 1
    /\ dst_frames = 1
    /\ silence_prefil = 0
    /\ dst_type \in {"INT16", "INT32"}
    /\ InPorts = <<>>
    /\ OutPorts = <<>>
    /\ adapters = << >>
    /\ jack_buffer = << >>
    /\ phase = "conv"
    /\ pc = "idle"
    /\ ticks = 0
    /\ callbacks = 0
    /\ cb_nframes = 0
    /\ cb_ret = 0
    /\ loop_ret = 0
    /\ ret = 0
    /\ trace = <<>>
    /\ \E addr \in BufAddrs :
          handle = [kind |-> "Integer",
                    conv |-> ShadowBufferJackPortConverter(dst_type, addr),
                    buffer |-> NULL]
    /\ \E x \in ConvInputs :
          port_buffer = [null |-> FALSE, data |-> [j \in {0} |-> [t |-> 1, v |-> x]]]
    /\ got = NoPointer
    /\ call = NoCall
    /\ api_calls = 0
    /\ host = Constructed
    /\ heap_ops = 0
    /\ freed = NoneFreed

\* from_jack(dst, src, 1, sample_size, NULL) on the one frame of the server
\* buffer, as IntegerJackPortConverter::copy_from_jack(0, 0, 1) calls it.
conv_from_jack ==
    /\ call.op = "none"
    /\ \E y \in SampleMoveResults(handle.conv.fmt, port_buffer.data[0].v) :
          handle' = [handle EXCEPT !.conv.buffer =
                        ShadowWrite(handle.conv.buffer, 0, 1,
                                    [i \in {0} |-> [t |-> 1, v |-> y]])]
    /\ got' = [p |-> get_shadow_buffer(handle.conv, 0), frames |-> 1]
    /\ call' = [op |-> "from_jack", frames |-> 1, src |-> JackBufferAddr]
    /\ UNCHANGED <<apiFixed, InPorts, OutPorts, ticks, port_buffer, api_calls>>

NextConv == conv_from_jack

SpecConv == InitConv /\ [][NextConv]_vars

\* ------------------------------------------------------------------ claims
\* The tick boundary of a running client: the latest process callback returned 0.
AtTickEnd == phase = "running" /\ pc = "idle" /\ ticks >= 1

\* The callback count the spec gives for n server ticks.
ExpectedCallbacks(n) == (n * jack_buffer_size + silence_prefil) \div dst_frames

\* C1 (as stated): for every n >= 0, after n completed server ticks of a client
\* with at least one input and one output adapter whose callback never returned
\* negative, the client callback has run floor((n*S + silence_prefill) / C) times.
C1_CallbackCountFromZero ==
    (phase = "running" /\ pc = "idle" /\ InPorts # <<>> /\ OutPorts # <<>>)
        => callbacks = ExpectedCallbacks(ticks)

\* C1 (amended): the same count for every n >= 1; before the first tick no
\* callback has run although floor(silence_prefill / C) is 1 when neither
\* period divides the other.
C1_CallbackCount ==
    (AtTickEnd /\ InPorts # <<>> /\ OutPorts # <<>>)
        => callbacks = ExpectedCallbacks(ticks)

C1_Witness ==
    /\ AtTickEnd /\ InPorts # <<>> /\ OutPorts # <<>>
    /\ ticks = 3 /\ jack_buffer_size = 3 /\ dst_frames = 2
    /\ callbacks = 5

\* C2 (as stated): in every server tick every output adapter reaches its drain
\* step, and reaches it with shadow_frames + client_frames >= S, so S frames are
\* copied to the server in every tick.
C2_DrainsEveryTick ==
    /\ pc = "next_out" =>
          \A k \in 1 .. Len(OutPorts) :
              adapters[OutPorts[k]].shadow_frames
                + adapters[OutPorts[k]].client_frames >= jack_buffer_size
    /\ (pc = "idle" /\ ticks >= 1 /\ OutPorts # <<>>) => trace[Len(trace)] = "out"

\* C2 (amended): no output underrun: in every tick of an aggregator with an
\* input adapter, every output adapter that reaches its drain step reaches it
\* with shadow_frames + client_frames >= S, so S frames are copied to the
\* server; every tick reaches the drain step unless a client callback ends it
\* by returning a negative value.
C2_NoUnderrun ==
    /\ (pc = "next_out" /\ InPorts # <<>>)
          => \A k \in 1 .. Len(OutPorts) :
                adapters[OutPorts[k]].shadow_frames
                  + adapters[OutPorts[k]].client_frames >= jack_buffer_size
    /\ (pc = "idle" /\ ticks >= 1 /\ cb_ret >= 0) => trace[Len(trace)] = "out"

C2_Witness ==
    /\ pc = "next_out" /\ InPorts # <<>> /\ OutPorts # <<>>
    /\ ticks = 2
    /\ jack_buffer_size % dst_frames # 0 /\ dst_frames % jack_buffer_size # 0
    /\ adapters[OutPorts[1]].shadow_frames > 0
    /\ adapters[OutPorts[1]].client_frames > 0

\* The input frame index expected at position p (1, 2, ...) of a stream that
\* is the server input delayed by delay silent frames (0 marks silence).
DelayedT(p, delay) == IF p <= delay THEN 0 ELSE p - delay

\* C3: round-trip identity with the pass-through client: the server output
\* blocks, concatenated, are the server input frames in delivery order behind
\* silence_prefill + k silent frames; no frame is lost, duplicated or reordered.
C3_RoundTrip ==
    (AtTickEnd /\ InPorts # <<>>)
        => \A o \in 1 .. Len(OutPorts) :
             \E k \in 0 .. jack_buffer_size + dst_frames :
               \A j \in 0 .. jack_buffer_size - 1 :
                  jack_buffer[OutPorts[o]][j].t
                     = DelayedT((ticks - 1) * jack_buffer_size + j + 1,
                                silence_prefil + k)

\* Frames an input adapter has taken in (silence included) and not yet handed
\* to the client, while the current tick's server buffer is being read.
InBuffered(a) ==
    silence_prefil + (ticks - 1) * jack_buffer_size + a.jack_offset
        - callbacks * dst_frames

\* C4: the client callback is invoked with nframes = dst_frames, only when every
\* input adapter holds a full client period (taken in, not yet handed over, and
\* none pending behind it in the shadow), and the loop does not end while every
\* input adapter holds one.
C4_CallbackWhenFull ==
    /\ pc = "callback" =>
          /\ CallbackFrames = dst_frames
          /\ \A k \in 1 .. Len(InPorts) :
                /\ InBuffered(adapters[InPorts[k]]) = dst_frames
                /\ adapters[InPorts[k]].shadow_frames = 0
    /\ callbacks > 0 => cb_nframes = dst_frames
    /\ (pc = "next_out" /\ loop_ret = 0) =>
          \A k \in 1 .. Len(InPorts) :
             /\ adapters[InPorts[k]].shadow_frames < dst_frames
             /\ adapters[InPorts[k]].shadow_frames
                  = silence_prefil + ticks * jack_buffer_size - callbacks * dst_frames

C4_Witness ==
    /\ pc = "callback" /\ Len(InPorts) = 2
    /\ jack_buffer_size = 3 /\ dst_frames = 4 /\ ticks = 3
    /\ adapters[InPorts[2]].jack_offset = 2

\* Frame p (1, 2, ...) of the stream an input adapter hands to the client:
\* silence_prefill zero frames, then the server input in the port's format.
StreamCell(fmt, p) ==
    IF p <= silence_prefil THEN Zero(fmt)
    ELSE FromJack(fmt, ServerIn(p - silence_prefil))

\* C5: at the k-th client callback invocation (k = 0, 1, ...) the shadow buffer
\* of every input port holds at offsets 0 .. C-1 the frames k*C .. (k+1)*C-1
\* of silence_prefill zero frames followed by the server input in delivery
\* order, in the port's sample format.
C5_InputShadowContent ==
    pc = "callback" =>
        \A k \in 1 .. Len(InPorts) : \A i \in 0 .. dst_frames - 1 :
            adapters[InPorts[k]].buffer[i]
                = StreamCell(adapters[InPorts[k]].fmt, callbacks * dst_frames + i + 1)

C5_Witness ==
    /\ pc = "callback" /\ Len(InPorts) = 2 /\ callbacks = 3
    /\ jack_buffer_size = 3 /\ dst_frames = 4
    /\ adapters[InPorts[1]].buffer[0].t = 9

\* C6: calculate_silence_prefill(C, S) is 0 if S = C; 0 if S > C and C divides
\* S; C if S > C and C does not divide S; C - S if S < C and S divides C; C if
\* S < C and S does not divide C; it always lies in 0 .. C.
C6_SilencePrefillTable ==
    LET S == jack_buffer_size
        C == dst_frames
    IN  /\ S = C => silence_prefil = 0
        /\ (S > C /\ S % C = 0) => silence_prefil = 0
        /\ (S > C /\ S % C # 0) => silence_prefil = C
        /\ (S < C /\ C % S = 0) => silence_prefil = C - S
        /\ (S < C /\ C % S # 0) => silence_prefil = C
        /\ silence_prefil \in 0 .. C

C6_Witness ==
    /\ jack_buffer_size = 2 /\ dst_frames = 4 /\ silence_prefil = 2
    /\ InPorts # <<>> /\ adapters[InPorts[1]].shadow_frames = 2

\* C7: every input adapter has 0 <= shadow_frames <= dst_frames in every state.
C7_InputShadowFramesBound ==
    \A k \in 1 .. Len(InPorts) :
        /\ adapters[InPorts[k]].shadow_frames >= 0
        /\ adapters[InPorts[k]].shadow_frames <= dst_frames

C7_Witness ==
    /\ AtTickEnd /\ ticks >= 2 /\ Len(InPorts) = 2
    /\ dst_frames = 4
    /\ adapters[InPorts[2]].shadow_frames = dst_frames - 1

\* C8: for all periods S, C in 1 .. BUFFER_SIZE_MAX every output adapter has
\* shadow_offset + shadow_frames <= BUFFER_SIZE_MAX * 4 / sample_size frames at
\* every callback boundary.
C8_OutputWithinCapacity ==
    pc \in {"idle", "callback"} =>
        \A k \in 1 .. Len(OutPorts) :
            adapters[OutPorts[k]].shadow_offset + adapters[OutPorts[k]].shadow_frames
                <= (BUFFER_SIZE_MAX * 4) \div SampleSize(adapters[OutPorts[k]].fmt)

\* How often event e occurs in the trace of the tick.
RECURSIVE Count(_, _)
Count(seq, e) ==
    IF seq = <<>> THEN 0
    ELSE (IF Head(seq) = e THEN 1 ELSE 0) + Count(Tail(seq), e)

\* In every tick each client callback directly follows an advance of the input
\* adapters, and no advance of the output adapters is followed by anything.
OrderedTrace ==
    /\ \A i \in 1 .. Len(trace) :
          trace[i] = "cb" => (i > 1 /\ trace[i - 1] = "in")
    /\ \A i \in 1 .. Len(trace) : trace[i] = "out" => i = Len(trace)

\* The process callback has returned.
TickReturned == pc = "idle" /\ ticks >= 1

\* The tick ended because the client callback returned a negative value.
TickAborted == TickReturned /\ trace[Len(trace)] = "cb"

\* C9 (as stated): in every server tick each client callback is preceded by an
\* advance of all input adapters, and the output adapters are advanced exactly
\* once, after the last client callback.
C9_OrderEveryTick ==
    /\ OrderedTrace
    /\ (TickReturned /\ OutPorts # <<>>) => Count(trace, "out") = 1

\* C9 (amended): the same, for every tick that no client callback ends by
\* returning a negative value; in a tick so ended no output adapter is advanced.
C9_Order ==
    /\ OrderedTrace
    /\ (TickReturned /\ ~TickAborted /\ OutPorts # <<>>) => Count(trace, "out") = 1
    /\ TickAborted => Count(trace, "out") = 0

C9_Witness ==
    /\ TickReturned /\ ~TickAborted /\ ticks = 2 /\ Len(OutPorts) = 2
    /\ Count(trace, "cb") = 2 /\ Count(trace, "in") = 3
    /\ trace[Len(trace)] = "out"

\* C10: when the client callback returns a negative value r, the process
\* callback returns r and the tick ends there: update_client_frames is not
\* applied, no output adapter is advanced, no server buffer is written and the
\* input adapters keep the shadow_frames and jack_offset they had at the call.
C10_AbortKeepsState ==
    [][(pc = "callback" /\ cb_ret' < 0) =>
          /\ ret' = cb_ret'
          /\ pc' = "idle" /\ phase' = "terminated"
          /\ trace' = Append(trace, "cb")
          /\ jack_buffer' = jack_buffer
          /\ \A p \in DOMAIN adapters :
                /\ adapters'[p].shadow_frames = adapters[p].shadow_frames
                /\ adapters'[p].jack_offset = adapters[p].jack_offset
                /\ adapters'[p].shadow_offset = adapters[p].shadow_offset
                /\ adapters'[p].client_frames = adapters[p].client_frames]_vars

C10_Witness ==
    /\ TickAborted /\ ret = 0 - 5 /\ cb_ret = 0 - 5
    /\ Count(trace, "cb") = 2
    /\ InPorts # <<>> /\ adapters[InPorts[1]].jack_offset = 2 * dst_frames
    /\ OutPorts # <<>> /\ adapters[OutPorts[1]].client_frames = dst_frames

\* C11: the process callback returns a negative status when the input list is
\* empty; otherwise, in a tick where no adapter reports an error (-EINVAL) and
\* no client callback returns negative, it returns 0, whatever the output list.
C11_ReturnValue ==
    TickReturned =>
        /\ InPorts = <<>> => ret < 0
        /\ (InPorts # <<>> /\ ~TickAborted /\ loop_ret >= 0 /\ ret # 0 - EINVAL)
              => ret = 0

\* The server period is an exact multiple of the client period.
ServerIsMultiple == jack_buffer_size % dst_frames = 0

\* What a frame of the server input is after the round trip through a port of
\* format fmt (the frame itself for DEFAULT).
RoundTrip(fmt, c) == ToJack(fmt, FromJack(fmt, c))

ServerDividesClient ==
    jack_buffer_size < dst_frames /\ dst_frames % jack_buffer_size = 0

\* C17 (as stated): S = 32, C = 128: ticks 1, 2, 3 fire no client callback and
\* tick 4 fires the first one; in general for S < C with S dividing C the
\* first C/S - 1 ticks fire none and the callback first fires in tick C/S.
C17_FirstCallbackInTickRatio ==
    /\ SubSeq(ServerSmallerRun, 1, 4)
          = <<<<0, 32>>, <<0, 64>>, <<0, 96>>, <<1, 0>>>>
    /\ (ServerDividesClient /\ TickReturned /\ InPorts # <<>>) =>
          /\ ticks < dst_frames \div jack_buffer_size => Count(trace, "cb") = 0
          /\ ticks = dst_frames \div jack_buffer_size
                => (Count(trace, "cb") = 1 /\ callbacks = 1)

\* C17 (amended): S = 32, C = 128, silence_prefill = 96: tick 1 fires the
\* client callback once (96 silent frames and the 32 frames of tick 1), ticks
\* 2, 3, 4 fire none and tick 5 fires it once; in general for S < C with S
\* dividing C tick n fires exactly one callback when C/S divides n - 1 and
\* none otherwise.
C17_CallbackEveryRatioTicks ==
    /\ ServerSmallerRun
          = <<<<1, 0>>, <<0, 32>>, <<0, 64>>, <<0, 96>>, <<1, 0>>>>
    /\ (ServerDividesClient /\ TickReturned /\ InPorts # <<>>) =>
          Count(trace, "cb")
             = IF (ticks - 1) % (dst_frames \div jack_buffer_size) = 0 THEN 1 ELSE 0

C17_Witness ==
    /\ TickReturned /\ InPorts # <<>> /\ OutPorts # <<>>
    /\ jack_buffer_size = 2 /\ dst_frames = 4 /\ silence_prefil = 2
    /\ ticks = 3 /\ Count(trace, "cb") = 1 /\ callbacks = 2

\* The server period lies strictly between the client period and twice the
\* client period, as 100 does for 64.
ServerBelowTwice ==
    dst_frames < jack_buffer_size /\ jack_buffer_size < 2 * dst_frames

\* C18 (as stated): S = 100, C = 64, silence_prefill = 64: tick 1 fires the
\* client callback twice and ends with 36 frames in the input shadow; tick 2
\* fires it once.
C18_SecondTickOnce ==
    /\ ServerLargerRun[1] = <<2, 36>>
    /\ ServerLargerRun[2][1] = 1
    /\ (ServerBelowTwice /\ 2 * jack_buffer_size >= 3 * dst_frames
          /\ TickReturned /\ ~TickAborted /\ InPorts # <<>> /\ ticks = 2)
          => Count(trace, "cb") = 1

\* C18 (amended): S = 100, C = 64, silence_prefill = 64: tick 1 fires the
\* client callback twice and ends with 36 frames in the input shadow; tick 2
\* fires it twice and ends with 8. In general for C < S < 2C tick 1 fires two
\* callbacks and keeps S - C frames, tick 2 fires floor((2S - C) / C) and
\* keeps (2S - C) mod C.
C18_SecondTickTwice ==
    /\ ServerLargerRun = <<<<2, 36>>, <<2, 8>>>>
    /\ (ServerBelowTwice /\ TickReturned /\ ~TickAborted /\ InPorts # <<>>) =>
          /\ silence_prefil = dst_frames
          /\ ticks = 1 =>
                /\ Count(trace, "cb") = 2
                /\ \A k \in 1 .. Len(InPorts) :
                      adapters[InPorts[k]].shadow_frames
                         = jack_buffer_size - dst_frames
          /\ ticks = 2 =>
                /\ Count(trace, "cb")
                      = (2 * jack_buffer_size - dst_frames) \div dst_frames
                /\ \A k \in 1 .. Len(InPorts) :
                      adapters[InPorts[k]].shadow_frames
                         = (2 * jack_buffer_size - dst_frames) % dst_frames

C18_Witness ==
    /\ TickReturned /\ ~TickAborted /\ InPorts # <<>> /\ OutPorts # <<>>
    /\ jack_buffer_size = 3 /\ dst_frames = 2 /\ ticks = 2
    /\ Count(trace, "cb") = 2 /\ callbacks = 4

\* floor(S/C) and ceil(S/C).
FloorRatio == jack_buffer_size \div dst_frames
CeilRatio == (jack_buffer_size + dst_frames - 1) \div dst_frames

\* C19 (as stated): every server tick terminates, and the number of client
\* callback invocations in a tick is floor(S/C) or ceil(S/C).
C19_FloorOrCeilEveryTick ==
    (TickReturned /\ InPorts # <<>>)
        => Count(trace, "cb") \in {FloorRatio, CeilRatio}

\* C19 (amended): every server tick terminates and fires at most ceil(S/C)
\* client callbacks; a tick that no client callback ends by returning a
\* negative value fires floor(S/C) or ceil(S/C) of them.
C19_BoundedLoop ==
    /\ [](Count(trace, "cb") <= CeilRatio)
    /\ []((TickReturned /\ ~TickAborted /\ InPorts # <<>>)
            => Count(trace, "cb") \in {FloorRatio, CeilRatio})
    /\ ((pc # "idle") ~> (pc = "idle"))

C19_Witness ==
    /\ TickReturned /\ ~TickAborted /\ InPorts # <<>> /\ OutPorts # <<>>
    /\ jack_buffer_size = 4 /\ dst_frames = 3 /\ ticks = 3
    /\ Count(trace, "cb") = CeilRatio /\ callbacks = 5

\* C12 (as the spec states it): in a process cycle in which the host returns
\* NULL for the server buffer of the port, a get made by the client returns
\* NULL, on a plain Shadow or Integer converter and on an input period adapter
\* alike.
C12_NullBufferNullGet ==
    (/\ call.op = "get"
     /\ port_buffer.null
     /\ handle.kind \in {"Shadow", "Integer", "FramesIn"}
     /\ got.frames \in {jack_buffer_size, dst_frames})
        => got.p = NULL

\* C13 (as the spec states it): on a period adapter get with frames other
\* than dst_frames returns NULL, and set changes neither the shadow buffer nor
\* a counter when it is called on an input adapter or, with frames other than
\* dst_frames, on an output adapter.
C13_MisuseIsNoOp ==
    /\ []((/\ call.op = "get"
           /\ handle.kind \in {"FramesIn", "FramesOut"}
           /\ call.frames # dst_frames) => got.p = NULL)
    /\ [][(/\ call'.op = "set"
           /\ \/ handle.kind = "FramesIn"
              \/ handle.kind = "FramesOut" /\ call'.frames # dst_frames)
             => (handle' = handle /\ port_buffer' = port_buffer)]_vars

\* A step that is set(p, frames) with p the pointer get(frames) just returned.
SetOfGot ==
    /\ call'.op = "set"
    /\ got.p > NULL
    /\ call'.src = got.p
    /\ call'.frames = got.frames

\* C14 (as the spec states it): for every converter variant, set(p, frames)
\* with p the pointer just returned by get(frames) on the same handle leaves
\* the server buffer, the shadow buffer and all counters as they were.
C14_SetOfGotChangesNothing ==
    [][(SetOfGot /\ handle.kind \in {"Forward", "Shadow", "Integer", "FramesOut"})
          => (handle' = handle /\ port_buffer' = port_buffer)]_vars

\* C14 (amended): set(p, frames) with p the pointer just returned by
\* get(frames) leaves the shadow buffer and all counters as they were for
\* every variant; it leaves the server buffer as it was on a Forward converter
\* and on an output period adapter, while a plain Shadow or Integer converter
\* stores the first frames frames of its shadow buffer, converted to float, in
\* the server buffer (when the host returned one).
C14_SetOfGot ==
    [][(SetOfGot /\ handle.kind \in {"Forward", "Shadow", "Integer", "FramesOut"})
          => /\ handle' = handle
             /\ handle.kind \in {"Forward", "FramesOut"} => port_buffer' = port_buffer
             /\ handle.kind \in {"Shadow", "Integer"} =>
                   /\ port_buffer'.null = port_buffer.null
                   /\ port_buffer.null => port_buffer' = port_buffer
                   /\ ~port_buffer.null =>
                        \A j \in DOMAIN port_buffer.data :
                           port_buffer'.data[j] =
                              IF j < call'.frames
                              THEN ToJack(handle.conv.fmt, handle.conv.buffer[j])
                              ELSE port_buffer.data[j]]_vars

\* An Integer converter whose set(p) carried what the client wrote through p
\* into the server buffer.
C14_Witness ==
    /\ call.op = "set"
    /\ call.src = got.p
    /\ call.frames = got.frames
    /\ handle.kind = "Integer"
    /\ ~port_buffer.null
    /\ port_buffer.data[0].t = 100
    /\ handle.conv.buffer[0].t = 100

\* C15 (as the spec states it): every non-null pointer returned by get on a
\* handle backed by a shadow buffer (plain Shadow or Integer converter, input
\* or output period adapter) is 32-byte aligned.
C15_EveryGotAligned ==
    (/\ call.op = "get"
     /\ got.p > NULL
     /\ handle.kind \in {"Shadow", "Integer", "FramesIn", "FramesOut"})
        => got.p % BUF_ALIGN_BYTES = 0

\* C15 (amended): a non-null pointer returned by get on a plain Shadow or
\* Integer converter or on an input period adapter is 32-byte aligned; on an
\* output period adapter get returns the 32-byte aligned base of the shadow
\* buffer plus (shadow_offset + shadow_frames + client_frames) samples, which
\* is aligned only where that many samples are a multiple of 32 bytes.
C15_BaseAligned ==
    (/\ call.op = "get"
     /\ got.p > NULL
     /\ handle.kind \in {"Shadow", "Integer", "FramesIn", "FramesOut"})
        => LET a == handle.conv
               skipped == IF handle.kind = "FramesOut"
                          THEN a.shadow_offset + a.shadow_frames + a.client_frames
                          ELSE 0
               base == got.p - skipped * SampleSize(a.fmt)
           IN  /\ base % BUF_ALIGN_BYTES = 0
               /\ base >= a.addr
               /\ base - a.addr <= BUF_ALIGN_BYTES

\* An output period adapter whose get, after one client period was written,
\* returns a pointer that is not 32-byte aligned from a storage that the
\* allocator did not align.
C15_Witness ==
    /\ call.op = "get"
    /\ handle.kind = "FramesOut"
    /\ handle.conv.addr % BUF_ALIGN_BYTES # 0
    /\ handle.conv.client_frames > 0
    /\ got.p > NULL
    /\ got.p % BUF_ALIGN_BYTES # 0

\* C20: jack_port_create_convert gives a Forward converter for DEFAULT without
\* aggregator, a float Shadow converter in a period adapter for DEFAULT with
\* aggregator, an Integer converter for INT16/INT32, in a period adapter iff an
\* aggregator is given; a period adapter is appended once to one list, the
\* outputs if the port has the output flag, the inputs otherwise; an
\* unsupported dst_type or a failed read of the port flags gives NULL and
\* leaves both lists as they were.
C20_VariantSelection ==
    [][call'.op = "create" =>
        LET iconv == call'.iconv
            flags == call'.flags
            output == flags % 4 >= 2
            kept == InPorts' = InPorts /\ OutPorts' = OutPorts
        IN  /\ (dst_type = "DEFAULT" /\ ~iconv) =>
                  (handle'.kind = "Forward" /\ kept)
            /\ (dst_type \in {"INT16", "INT32"} /\ ~iconv) =>
                  (handle'.kind = "Integer" /\ handle'.conv.fmt = dst_type /\ kept)
            /\ (dst_type \in DstTypes /\ iconv /\ flags >= 0) =>
                  /\ handle'.conv.fmt = dst_type
                  /\ handle'.conv.shadow_offset = 0
                  /\ IF output
                     THEN /\ handle'.kind = "FramesOut"
                          /\ OutPorts' = Append(OutPorts, ApiPort)
                          /\ InPorts' = InPorts
                     ELSE /\ handle'.kind = "FramesIn"
                          /\ InPorts' = Append(InPorts, ApiPort)
                          /\ OutPorts' = OutPorts
            /\ (dst_type \notin DstTypes \/ (iconv /\ flags < 0)) =>
                  (handle'.kind = "null" /\ kept)]_vars

\* An INT16 period adapter made for an output port with further flags set,
\* appended to the outputs behind the adapter registered before it.
C20_Witness ==
    /\ call.op = "create"
    /\ call.iconv
    /\ call.flags = 22
    /\ dst_type = "INT16"
    /\ handle.kind = "FramesOut"
    /\ OutPorts = <<"out1", ApiPort>>
    /\ InPorts = <<"in1">>

\* C21: jack_buffer_create_convert returns NULL when arg is NULL, and then no
\* process callback is registered and nothing is stored through arg; it
\* returns NULL when the registration of the process callback fails; when it
\* succeeds arg->handle holds the aggregator it returns and exactly one
\* process callback is registered.
C21_BufferCreate ==
    [][(phase = "create" /\ phase' # "create") =>
          /\ host'.arg = NULL =>
                /\ host'.returned = NULL
                /\ host'.process_callbacks = host.process_callbacks
                /\ ~host'.set_called
                /\ host'.stores = host.stores
                /\ host'.handle = host.handle
          /\ (host'.set_called /\ host'.set_ret # 0) =>
                (host'.returned = NULL /\ host'.process_callbacks = host.process_callbacks)
          /\ (host'.arg # NULL /\ host'.set_ret = 0) =>
                /\ host'.set_called
                /\ host'.returned # NULL
                /\ host'.handle = host'.returned
                /\ host'.process_callbacks = 1
          /\ phase' = "setup" <=> host'.returned # NULL]_vars

\* A client whose jack_buffer_create_convert succeeded, with the aggregator in
\* arg->handle, created its ports and had its process callback called.
C21_Witness ==
    /\ host.arg = ArgAddr
    /\ host.returned = AggregatorAddr
    /\ host.handle = AggregatorAddr
    /\ host.process_callbacks = 1
    /\ InPorts # <<>>
    /\ ticks = 1
    /\ silence_prefil = calculate_silence_prefill(dst_frames, jack_buffer_size)
    /\ silence_prefil > 0

\* C23 (as the spec states it): between entry and return of
\* JackBufferConverter::converter, the client callback left aside, no step
\* allocates or frees heap memory, the iteration over the input and output
\* adapter lists included.
C23_NoHeapInCallback == heap_ops = 0

\* The scale of an integer format.
Scaling(fmt) == IF fmt = "INT32" THEN SAMPLE_32BIT_SCALING ELSE SAMPLE_16BIT_SCALING

\* The server sample a conversion read and the integer it stored.
ConvIn == port_buffer.data[0].v
ConvOut == handle.conv.buffer[0].v

\* C22 (as the spec states it): for every input sample x the conversion to
\* int32 yields a value in [-0x7FFFFFFF, +0x7FFFFFFF] and the one to int16 a
\* value in [-0x7FFF, +0x7FFF]; every x <= -1.0 maps to the negative scale,
\* every x >= +1.0 to the positive scale, and 0.0 to 0.
C22_ClampedRange ==
    call.op = "from_jack" =>
        /\ ConvOut[1] = "i"
        /\ ConvOut[2] >= 0 - Scaling(dst_type)
        /\ ConvOut[2] <= Scaling(dst_type)
        /\ (ConvIn[1] = "f" /\ ConvIn[2] <= 0 - 4) => ConvOut[2] = 0 - Scaling(dst_type)
        /\ (ConvIn[1] = "f" /\ ConvIn[2] >= 4) => ConvOut[2] = Scaling(dst_type)
        /\ ConvIn = <<"f", 0>> => ConvOut[2] = 0

\* The shadow storage b after n frames of the server block src, from frame
\* server_off on, were converted into the storage a from frame shadow_off on.
CopiedFromServer(a, b, fmt, shadow_off, server_off, n, src) ==
    \A i \in DOMAIN a :
        b[i] = IF i >= shadow_off /\ i < shadow_off + n
               THEN FromJack(fmt, src[server_off + (i - shadow_off)])
               ELSE a[i]

\* The advance of an input adapter as the spec describes it: a is the adapter
\* before, b the adapter after, r the result (1 Ready, 0 NotReady, -EINVAL
\* Error), S and C the server and the client period.
InAdvance(a, b, r, S, C, src) ==
    LET avail == S - a.jack_offset
        need == C - a.shadow_frames
    IN  IF a.shadow_frames > C THEN r = 0 - EINVAL /\ b = a
        ELSE IF a.shadow_frames + avail >= C
        THEN /\ r = 1
             /\ CopiedFromServer(a.buffer, b.buffer, a.fmt, a.shadow_frames,
                                 a.jack_offset, need, src)
             /\ b.jack_offset = a.jack_offset + need
             /\ b.shadow_frames = 0
        ELSE /\ r = 0
             /\ CopiedFromServer(a.buffer, b.buffer, a.fmt, a.shadow_frames,
                                 a.jack_offset, avail, src)
             /\ b.shadow_frames = a.shadow_frames + avail
             /\ b.jack_offset = 0

\* An input adapter that holds more than a client period C.
OverfullIn(fmt, addr, C) ==
    [FramesInPortConverter(fmt, addr, 0) EXCEPT !.shadow_frames = C + 1]

\* C24: FramesInPortConverter::next is the spec's state machine. With
\* avail = S - server_offset: shadow_frames > C gives Error and leaves the state
\* alone; shadow_frames + avail >= C copies need = C - shadow_frames frames from
\* server[server_offset ..] to shadow[shadow_frames ..], adds need to
\* server_offset, sets shadow_frames to 0 and gives Ready; otherwise it copies
\* avail frames to shadow[shadow_frames ..], adds avail to shadow_frames, sets
\* server_offset to 0 and gives NotReady.
C24_InNextIsStateMachine ==
    [][/\ pc = "next_in" =>
            \A k \in 1 .. Len(InPorts) :
                InAdvance(adapters[InPorts[k]], adapters'[InPorts[k]], loop_ret',
                          jack_buffer_size, dst_frames,
                          JackInBuffer(ticks, jack_buffer_size))
       /\ \A fmt \in DstTypes, addr \in BufAddrs :
             LET a == OverfullIn(fmt, addr, dst_frames)
                 src == JackInBuffer(1, jack_buffer_size)
                 o == FramesIn_next(a, jack_buffer_size, dst_frames, src)
             IN  InAdvance(a, o.a, o.r, jack_buffer_size, dst_frames, src)]_vars

\* C24 witness: a pass over the input adapters found less than a client period
\* and stored the rest of the server block behind frames of the tick before,
\* after passes that completed a period.
C24_Witness ==
    /\ pc = "next_out"
    /\ loop_ret = 0
    /\ ticks >= 2
    /\ callbacks >= 2
    /\ InPorts # <<>>
    /\ \A k \in 1 .. Len(InPorts) :
          /\ adapters[InPorts[k]].shadow_frames > 0
          /\ adapters[InPorts[k]].shadow_frames < dst_frames
          /\ adapters[InPorts[k]].jack_offset = 0

\* The advance of an output adapter as the spec describes it: a is the adapter
\* before, b the adapter after, r the result (1 Ok, -EINVAL Error), jb and jb2
\* the server buffer of the port before and after, S and C the periods.
OutAdvance(a, b, r, jb, jb2, S, C) ==
    LET drained == a.shadow_frames + a.client_frames >= S
        left == IF drained THEN a.shadow_frames + a.client_frames - S
                ELSE a.shadow_frames + a.client_frames
        offset == IF drained THEN (IF left = 0 THEN 0 ELSE a.shadow_offset + S)
                  ELSE a.shadow_offset
        moved == offset > 0 /\ left <= S
    IN  /\ r = 0 - EINVAL <=> a.shadow_frames > Max(S, C)
        /\ r # 0 - EINVAL =>
              /\ r = 1
              /\ IF drained
                 THEN \A j \in 0 .. S - 1 :
                         jb2[j] = ToJack(a.fmt, ShadowRead(a.buffer, a.shadow_offset + j))
                 ELSE jb2 = jb
              /\ b.shadow_frames = left
              /\ b.shadow_offset = IF moved THEN 0 ELSE offset
              /\ IF moved
                 THEN \A i \in 0 .. left - 1 :
                         i \in DOMAIN b.buffer =>
                             b.buffer[i] = ShadowRead(a.buffer, offset + i)
                 ELSE b.buffer = a.buffer
              /\ b.client_frames = 0

\* An output adapter that holds more than both periods.
OverfullOut(fmt, addr, S, C) ==
    [FramesOutPortConverter(fmt, addr) EXCEPT !.shadow_frames = Max(S, C) + 1]

\* C25: FramesOutPortConverter::next is the spec's state machine. Error iff
\* shadow_frames > max(S, C); if shadow_frames + client_frames >= S it copies S
\* frames from shadow[shadow_offset ..] to the server, sets shadow_frames to
\* shadow_frames + client_frames - S, adds S to shadow_offset and resets
\* shadow_offset when shadow_frames is 0; otherwise it adds client_frames to
\* shadow_frames and copies nothing; then, if shadow_offset > 0 and
\* shadow_frames <= S, the remaining frames are moved to offset 0 in their
\* order and shadow_offset becomes 0; finally client_frames becomes 0 and the
\* result is Ok.
C25_OutNextIsStateMachine ==
    [][/\ pc = "next_out" =>
            \A k \in 1 .. Len(OutPorts) :
                LET p == OutPorts[k]
                    o == FramesOut_next(adapters[p], jack_buffer_size, dst_frames,
                                        jack_buffer[p])
                IN  /\ OutAdvance(adapters[p], adapters'[p], o.r, jack_buffer[p],
                                  jack_buffer'[p], jack_buffer_size, dst_frames)
                    /\ ret' = loop_ret
       /\ \A fmt \in DstTypes, addr \in BufAddrs :
             LET a == OverfullOut(fmt, addr, jack_buffer_size, dst_frames)
                 jb == [j \in 0 .. jack_buffer_size - 1 |-> Junk]
                 o == FramesOut_next(a, jack_buffer_size, dst_frames, jb)
             IN  /\ o.r = 0 - EINVAL
                 /\ OutAdvance(a, o.a, o.r, jb, o.jb, jack_buffer_size, dst_frames)]_vars

\* C25 witness: a tick has returned in which the output adapter drained a
\* server period, kept frames behind it and moved them to offset 0.
C25_Witness ==
    /\ TickReturned
    /\ ~TickAborted
    /\ ticks >= 2
    /\ OutPorts # <<>>
    /\ \A k \in 1 .. Len(OutPorts) :
          LET b == adapters[OutPorts[k]] IN
          /\ b.shadow_frames > 0
          /\ b.shadow_frames < Count(trace, "cb") * dst_frames
          /\ b.shadow_offset = 0
          /\ b.client_frames = 0

\* The three counters of an output adapter.
OutCounters(a) == <<a.shadow_frames, a.shadow_offset, a.client_frames>>

C27_ErrorPathsUnreachable ==
    /\ pc = "next_in" =>
          \A k \in 1 .. Len(InPorts) : adapters[InPorts[k]].shadow_frames <= dst_frames
    /\ pc = "next_out" =>
          \A k \in 1 .. Len(OutPorts) :
              adapters[OutPorts[k]].shadow_frames <= Max(jack_buffer_size, dst_frames)
    /\ loop_ret # 0 - EINVAL
    /\ ret # 0 - EINVAL

\* C27 witness: in a tick after the first, with different periods, the input
\* loop has ended without an error and the pass over the output adapters
\* starts with max(S, C) frames in each of them.
C27_Witness ==
    /\ pc = "next_out"
    /\ ticks >= 2
    /\ jack_buffer_size # dst_frames
    /\ InPorts # <<>>
    /\ OutPorts # <<>>
    /\ loop_ret = 0
    /\ \A k \in 1 .. Len(OutPorts) :
          adapters[OutPorts[k]].shadow_frames = Max(jack_buffer_size, dst_frames)

\* One input and one output adapter.
OnePair == Len(InPorts) = 1 /\ Len(OutPorts) = 1

\* The frames held in the adapters of a pair.
FramesHeld == adapters[InPorts[1]].shadow_frames + adapters[OutPorts[1]].shadow_frames

\* C28: frame conservation. With one input and one output adapter, fixed S and
\* C and a client callback that never returns a negative value, at the end of
\* every server tick input.shadow_frames + output.shadow_frames equals
\* silence_prefill(S, C).
C28_FrameConservation ==
    (OnePair /\ TickReturned /\ ~TickAborted) =>
        /\ FramesHeld = calculate_silence_prefill(dst_frames, jack_buffer_size)
        /\ FramesHeld = silence_prefil

\* C28 witness: the third or a later tick of a pair has returned with frames
\* held in both adapters.
C28_Witness ==
    /\ OnePair
    /\ TickReturned
    /\ ~TickAborted
    /\ ticks >= 3
    /\ adapters[InPorts[1]].shadow_frames > 0
    /\ adapters[OutPorts[1]].shadow_frames > 0
    /\ FramesHeld = silence_prefil

\* C29: bounded output write region. At every client callback each output
\* adapter has shadow_offset = 0 at the first callback of the tick, and the
\* region the client writes, [w, w + C) with
\* w = shadow_offset + shadow_frames + client_frames, ends at or below
\* silence_prefill(S, C) + S <= S + C frames and overlaps no frame that was
\* written and is not yet copied to the server (the frames from shadow_offset
\* up to w).
C29_WriteRegionBounded ==
    [][pc = "callback" =>
          \A k \in 1 .. Len(OutPorts) :
              LET a == adapters[OutPorts[k]]
                  b == adapters'[OutPorts[k]]
                  w == a.shadow_offset + a.shadow_frames + a.client_frames
                  prefill == calculate_silence_prefill(dst_frames, jack_buffer_size)
              IN  /\ Count(trace, "cb") = 0 => a.shadow_offset = 0
                  /\ w + dst_frames <= prefill + jack_buffer_size
                  /\ prefill + jack_buffer_size <= jack_buffer_size + dst_frames
                  /\ \A i \in DOMAIN a.buffer :
                        b.buffer[i] # a.buffer[i] => (i >= w /\ i < w + dst_frames)
                  /\ \A i \in a.shadow_offset .. w - 1 :
                        i \in DOMAIN a.buffer => b.buffer[i] = a.buffer[i]]_vars

\* C29 witness: the second client callback of a tick has written the region
\* that ends at silence_prefill(S, C) + S, behind frames not yet copied to the
\* server.
C29_Witness ==
    /\ pc = "update"
    /\ Count(trace, "cb") = 2
    /\ ticks >= 2
    /\ OutPorts # <<>>
    /\ silence_prefil > 0
    /\ \A k \in 1 .. Len(OutPorts) :
          LET a == adapters[OutPorts[k]] IN
          /\ a.shadow_offset = 0
          /\ a.shadow_frames > 0
          /\ a.shadow_frames + a.client_frames + dst_frames
                = silence_prefil + jack_buffer_size

\* C30: input copies stay inside the server block. In every tick, also in one
\* that follows a tick aborted by a negative return of the client callback,
\* each copy from the server buffer issued by an input adapter satisfies
\* server_off + frames <= S and shadow_off + frames <= C, and server_offset
\* never exceeds S, so S - server_offset does not wrap.
C30_InputCopiesInsideServerBlock ==
    [][pc = "next_in" =>
          \A k \in 1 .. Len(InPorts) :
              LET a == adapters[InPorts[k]]
                  b == adapters'[InPorts[k]]
                  c == InCopy(a, jack_buffer_size, dst_frames)
              IN  /\ a.jack_offset <= jack_buffer_size
                  /\ b.jack_offset <= jack_buffer_size
                  /\ a.shadow_frames <= dst_frames
                  /\ c.frames >= 0
                  /\ c.server_off + c.frames <= jack_buffer_size
                  /\ c.shadow_off + c.frames <= dst_frames
                  /\ b.buffer = copy_from_jack(a, c.shadow_off, c.server_off, c.frames,
                                    JackInBuffer(ticks, jack_buffer_size)).buffer]_vars

\* C30 witness: after a tick the client callback aborted, a later tick has
\* started in the middle of the server block and its first pass over the input
\* adapters copied the rest, fewer frames than a server period.
C30_Witness ==
    /\ phase = "running"
    /\ pc = "next_out"
    /\ trace = <<"in">>
    /\ cb_ret < 0
    /\ ticks >= 2
    /\ InPorts # <<>>
    /\ \A k \in 1 .. Len(InPorts) :
          /\ adapters[InPorts[k]].shadow_frames > 0
          /\ adapters[InPorts[k]].shadow_frames < jack_buffer_size

\* converter has been entered and has not yet made a step.
AtEntry == pc = "next_in" /\ trace = <<>>

\* C31 (as the spec states it): at entry to every process callback every input
\* adapter has server_offset = 0, for any sequence of ticks and whatever the
\* client callback returned in earlier ticks.
C31_ServerOffsetZeroAtEntry ==
    AtEntry => \A k \in 1 .. Len(InPorts) : adapters[InPorts[k]].jack_offset = 0

\* The counters of an input adapter.
InCounters(a) == <<a.shadow_frames, a.jack_offset>>

\* All input adapters of the aggregator have the same counters, and so have
\* all its output adapters.
Lockstep ==
    /\ \A i, j \in 1 .. Len(InPorts) :
          InCounters(adapters[InPorts[i]]) = InCounters(adapters[InPorts[j]])
    /\ \A i, j \in 1 .. Len(OutPorts) :
          OutCounters(adapters[OutPorts[i]]) = OutCounters(adapters[OutPorts[j]])

\* C32: lockstep of adapters. All input adapters registered with one
\* aggregator before the first tick have identical (shadow_frames,
\* server_offset) wherever the aggregator inspects their results, so in every
\* pass all of them return Ready or all return NotReady; all output adapters
\* have identical (shadow_frames, shadow_offset, client_frames) at every tick
\* boundary.
C32_AdaptersInLockstep ==
    [][/\ Lockstep
       /\ Lockstep'
       /\ pc = "next_in" =>
             \A k \in 1 .. Len(InPorts) :
                 FramesIn_next(adapters[InPorts[k]], jack_buffer_size, dst_frames,
                               JackInBuffer(ticks, jack_buffer_size)).r = loop_ret']_vars

\* C32 witness: a tick after the first has returned with two input and two
\* output adapters that hold frames.
C32_Witness ==
    /\ TickReturned
    /\ ~TickAborted
    /\ ticks >= 2
    /\ Len(InPorts) = 2
    /\ Len(OutPorts) = 2
    /\ Lockstep
    /\ adapters[InPorts[1]].shadow_frames > 0
    /\ adapters[OutPorts[1]].shadow_frames > 0

\* C33 (as the spec states it): in every server tick every adapter the process
\* callback advances, every element of the aggregator's input and output
\* lists, is an adapter that has not been destroyed, for any interleaving of
\* jack_port_create_convert, jack_port_destroy_convert,
\* jack_buffer_destroy_convert and server ticks; destroying an adapter
\* destroys its inner converter exactly once.
C33_AdvancedAdaptersAlive ==
    /\ (pc # "idle" /\ ~freed.aggregator) =>
          (Dangling(InPorts) = {} /\ Dangling(OutPorts) = {})
    /\ \A p \in PortNames : freed.inner[p] = IF p \in freed.ports THEN 1 ELSE 0
====
